---- MODULE Spec2Model ----
(***************************************************************************)
(* Model of the plat orchestration engine (pkg/orchestrator).              *)
(*                                                                         *)
(* Specifications:                                                         *)
(*   SpecLevels  the pure leveling function groupServicesByDependencyLevel *)
(*               applied to every bounded dependency graph;                *)
(*   SpecStatus  the status queries GetServiceStatuses and Status applied  *)
(*               to every bounded environment and provider answer;         *)
(*   SpecUp      one call of Up (EnsureCluster, DeployServices and its     *)
(*               per-level goroutine fan-out) against a nondeterministic   *)
(*               helm / k3d provider;                                      *)
(*   SpecDown    one call of Down (UndeployServices, DeleteCluster) on a   *)
(*               namespace that holds any set of releases;                 *)
(*   SpecShared  two environments calling Up and Down on one shared helm   *)
(*               namespace;                                                *)
(*   SpecEnsure  EnsureCluster alone, with the fairness of its timers;     *)
(*   SpecCli     the commands up and down and the dashboard's start and    *)
(*               stop actions on a loaded configuration;                   *)
(*   SpecMerge   the pure function mergeValues on every pair of bounded    *)
(*               value trees;                                              *)
(*   SpecResolve ResolveValues (pkg/config) on every bounded service.      *)
(***************************************************************************)
EXTENDS Integers, Sequences, FiniteSets, TLC

\* ------------------------------------------------------------------ bounds
\* Service names, in sort.Strings order: the rank of a name is its index.
NamePool == <<"api", "db", "web", "worker", "zeta">>

\* SpecLevels: number of names a graph may use and number of entries its
\* dependency lists may hold in all.
NumNames == 3
MaxDeps == 3

Min(a, b) == IF a < b THEN a ELSE b

Names == {NamePool[i] : i \in 1..Min(NumNames, Len(NamePool))}

Rank(n) == CHOOSE i \in 1..Len(NamePool) : NamePool[i] = n

\* ------------------------------------------------------ runtime (the input)
\* config.RuntimeConfig reduced to what the orchestrator reads: the keys of
\* ResolvedServices and each service's Dependencies list (ordered, may hold
\* duplicates and names that are not keys of the map).
\* Every assignment of dependency lists over the names U to the services S
\* that holds at most n entries in all.
RECURSIVE DepMaps(_, _, _)
DepMaps(S, U, n) ==
    IF n = 0 \/ S = {} THEN {[s \in S |-> <<>>]}
    ELSE LET fewer == DepMaps(S, U, n - 1)
         IN fewer \cup {[d EXCEPT ![x[1]] = Append(@, x[2])] : d \in fewer, x \in S \X U}

Runtimes(U, n) ==
    UNION {{[services |-> S, deps |-> d] : d \in DepMaps(S, U, n)} : S \in SUBSET U}

EmptyRuntime == [services |-> {}, deps |-> <<>>]

\* ---------------------------------------------------------- pure functions
\* sort.Strings applied to a slice holding each element of S once.
RECURSIVE SortStrings(_)
SortStrings(S) ==
    IF S = {} THEN <<>>
    ELSE LET m == CHOOSE x \in S : \A y \in S : Rank(x) <= Rank(y)
         IN <<m>> \o SortStrings(S \ {m})

\* The orders in which a range over a map with the keys S may visit them:
\* every sequence that holds each key once.
RECURSIVE MapOrders(_)
MapOrders(S) ==
    IF S = {} THEN {<<>>}
    ELSE UNION {{<<x>> \o rest : rest \in MapOrders(S \ {x})} : x \in S}

\* services.go:423-428: the range over inDegree, visiting the keys in the
\* given order, appends the services whose degree is 0.
RECURSIVE CollectLevel(_, _, _)
CollectLevel(inDegree, order, i) ==
    IF i > Len(order) THEN <<>>
    ELSE (IF inDegree[order[i]] = 0 THEN <<order[i]>> ELSE <<>>)
         \o CollectLevel(inDegree, order, i + 1)

\* Variant of SortLevel that leaves the level in the order it was collected.
SortLevel_Unsorted(currentLevel) == currentLevel

\* services.go:438: sort.Strings(currentLevel); the names are distinct.
SortLevel(currentLevel) ==
    SortStrings({currentLevel[i] : i \in 1..Len(currentLevel)})

\* Variant of InitInDegree that counts nothing.
InitInDegree_NoCount(rt) == [x \in rt.services |-> 0]

\* services.go:397-410: inDegree[x] counts the entries of all dependency
\* lists that name x, for x a key of ResolvedServices.
InitInDegree(rt) ==
    [x \in rt.services |->
        Cardinality({p \in UNION {{<<t, i>> : i \in 1..Len(rt.deps[t])} : t \in rt.services} :
                        rt.deps[p[1]][p[2]] = x})]

\* services.go:439-443: one pass over graph[service]; a missing key reads 0.
RECURSIVE DecrementDependencies(_, _, _)
DecrementDependencies(inDegree, dependencies, i) ==
    IF i > Len(dependencies) THEN inDegree
    ELSE LET dependency == dependencies[i]
             next == IF dependency \in DOMAIN inDegree /\ inDegree[dependency] > 0
                     THEN [inDegree EXCEPT ![dependency] = @ - 1]
                     ELSE inDegree
         IN DecrementDependencies(next, dependencies, i + 1)

\* Variant of RemoveLevel that forgets to mark the service as processed.
RECURSIVE RemoveLevel_NoMark(_, _, _, _)
RemoveLevel_NoMark(rt, inDegree, currentLevel, i) ==
    IF i > Len(currentLevel) THEN inDegree
    ELSE RemoveLevel_NoMark(rt, DecrementDependencies(inDegree, rt.deps[currentLevel[i]], 1),
                            currentLevel, i + 1)

\* services.go:434-444: mark each service of the level and decrement.
RECURSIVE RemoveLevel(_, _, _, _)
RemoveLevel(rt, inDegree, currentLevel, i) ==
    IF i > Len(currentLevel) THEN inDegree
    ELSE LET service == currentLevel[i]
             marked == [inDegree EXCEPT ![service] = -1]
         IN RemoveLevel(rt, DecrementDependencies(marked, rt.deps[service], 1),
                        currentLevel, i + 1)

\* Variant of GroupLoop that returns the levels computed so far together
\* with the error.
RECURSIVE GroupLoop_PartialLevels(_, _, _, _, _)
GroupLoop_PartialLevels(rt, inDegree, levels, processedCount, order) ==
    IF ~(processedCount < Cardinality(rt.services))
    THEN [levels |-> levels, err |-> FALSE]
    ELSE LET currentLevel == SortLevel(CollectLevel(inDegree, order, 1))
         IN IF Len(currentLevel) = 0
            THEN [levels |-> levels, err |-> TRUE]
            ELSE GroupLoop_PartialLevels(rt, RemoveLevel(rt, inDegree, currentLevel, 1),
                                         Append(levels, currentLevel),
                                         processedCount + Len(currentLevel), order)

\* services.go:416-447: the level loop; order is the order in which the
\* ranges over inDegree visit the services.
RECURSIVE GroupLoop(_, _, _, _, _)
GroupLoop(rt, inDegree, levels, processedCount, order) ==
    IF ~(processedCount < Cardinality(rt.services))
    THEN [levels |-> levels, err |-> FALSE]
    ELSE LET currentLevel == SortLevel(CollectLevel(inDegree, order, 1))
         IN IF Len(currentLevel) = 0
            THEN [levels |-> <<>>, err |-> TRUE]
            ELSE GroupLoop(rt, RemoveLevel(rt, inDegree, currentLevel, 1),
                           Append(levels, currentLevel),
                           processedCount + Len(currentLevel), order)

groupServicesByDependencyLevel(rt, order) ==
    GroupLoop(rt, InitInDegree(rt), <<>>, 0, order)

\* ------------------------------------------------ vocabulary of the claims
\* d is a dependency of s that is itself a service of the environment.
DependsOn(rt, s, d) ==
    /\ s \in rt.services /\ d \in rt.services
    /\ \E i \in 1..Len(rt.deps[s]) : rt.deps[s][i] = d

RECURSIVE ReachN(_, _, _, _)
ReachN(rt, s, d, n) ==
    IF n = 0 THEN FALSE
    ELSE \/ DependsOn(rt, s, d)
         \/ \E m \in rt.services : DependsOn(rt, s, m) /\ ReachN(rt, m, d, n - 1)

\* s depends on d directly or transitively.
Reaches(rt, s, d) == ReachN(rt, s, d, Cardinality(rt.services))

Acyclic(rt) == \A s \in rt.services : ~Reaches(rt, s, s)

\* The positions of service s in a level list.
Positions(levels, s) ==
    {p \in UNION {{<<l, i>> : i \in 1..Len(levels[l])} : l \in 1..Len(levels)} :
        levels[p[1]][p[2]] = s}

\* The levels of a level list that hold service s.
LevelsOf(levels, s) ==
    {l \in 1..Len(levels) : \E i \in 1..Len(levels[l]) : levels[l][i] = s}

\* ------------------------------------------------------------ Helm values
\* A value of a values tree (map[string]interface{}): a scalar, a list (a
\* slice, which the merge never enters) or a mapping from keys to values.
\* The field m holds the entries of a mapping and is empty otherwise.
NoEntries == [k \in {} |-> 0]

Scalar(s) == [kind |-> "scalar", s |-> s, m |-> NoEntries]

List(s) == [kind |-> "list", s |-> s, m |-> NoEntries]

Mapping(m) == [kind |-> "map", s |-> "", m |-> m]

\* The entries m with key k set to v.
Extend(m, k, v) == [x \in DOMAIN m \cup {k} |-> IF x = k THEN v ELSE m[x]]

\* The number of key entries of the entries m over the keys K, nested
\* mappings included.
RECURSIVE EntriesOf(_, _)
EntriesOf(m, K) ==
    IF K = {} THEN 0
    ELSE LET k == CHOOSE x \in K : TRUE
         IN 1 + (IF m[k].kind = "map" THEN EntriesOf(m[k].m, DOMAIN m[k].m) ELSE 0)
              + EntriesOf(m, K \ {k})

Entries(m) == EntriesOf(m, DOMAIN m)

\* Every tree with top-level keys in K, nested keys in S and scalars in V
\* that holds at most n entries in all.
RECURSIVE ValueMaps(_, _, _, _)
ValueMaps(K, S, V, n) ==
    IF K = {} \/ n = 0 THEN {NoEntries}
    ELSE LET k == CHOOSE x \in K : TRUE
             rest == ValueMaps(K \ {k}, S, V, n)
         IN rest \cup
            UNION {{Extend(r, k, v) :
                       v \in {Scalar(s) : s \in V} \cup
                             {Mapping(sub) : sub \in ValueMaps(S, S, V, n - Entries(r) - 1)}} :
                   r \in {x \in rest : Entries(x) < n}}

\* The heap of map objects: Go maps are references, so a tree is a set of
\* objects whose entries hold scalars, lists or the address of another
\* object.  An address is an index of the heap.
Cell(v, addr) == [kind |-> v.kind, s |-> v.s, a |-> addr]

\* A fresh tree (a map literal, or the decoder's output) put on the heap:
\* one new object per mapping.  Returns the heap and the root's address.
RECURSIVE NewMap(_, _, _, _)
NewMap(heap, m, K, obj) ==
    IF K = {} THEN [heap |-> Append(heap, obj), addr |-> Len(heap) + 1]
    ELSE LET k == CHOOSE x \in K : TRUE
         IN IF m[k].kind = "map"
            THEN LET sub == NewMap(heap, m[k].m, DOMAIN m[k].m, NoEntries)
                 IN NewMap(sub.heap, m, K \ {k}, Extend(obj, k, Cell(m[k], sub.addr)))
            ELSE NewMap(heap, m, K \ {k}, Extend(obj, k, Cell(m[k], 0)))

Alloc(heap, m) == NewMap(heap, m, DOMAIN m, NoEntries)

\* The tree found at an address.
RECURSIVE Load(_, _)
Load(heap, addr) ==
    [k \in DOMAIN heap[addr] |->
        LET c == heap[addr][k]
        IN IF c.kind = "map" THEN Mapping(Load(heap, c.a))
           ELSE [kind |-> c.kind, s |-> c.s, m |-> NoEntries]]

\* Variant of MergeKeys that never enters a mapping: every key of the
\* source overwrites.
RECURSIVE MergeKeys_Shallow(_, _, _, _)
MergeKeys_Shallow(heap, target, source, K) ==
    IF K = {} THEN heap
    ELSE LET key == CHOOSE x \in K : TRUE
         IN MergeKeys_Shallow([heap EXCEPT ![target] = Extend(@, key, heap[source][key])],
                              target, source, K \ {key})

\* values.go:232-244: the loop of mergeValues over the keys K of the source
\* still to visit.  Distinct keys touch distinct entries, so the order of
\* the iteration does not show in the result.
RECURSIVE MergeKeys(_, _, _, _)
MergeKeys(heap, target, source, K) ==
    IF K = {} THEN heap
    ELSE LET key == CHOOSE x \in K : TRUE
             sourceValue == heap[source][key]
             bothMaps == /\ key \in DOMAIN heap[target]
                         /\ heap[target][key].kind = "map"
                         /\ sourceValue.kind = "map"
         IN IF bothMaps
            THEN MergeKeys(MergeKeys(heap, heap[target][key].a, sourceValue.a,
                                     DOMAIN heap[sourceValue.a]),
                           target, source, K \ {key})
            ELSE MergeKeys([heap EXCEPT ![target] = Extend(@, key, sourceValue)],
                           target, source, K \ {key})

\* values.go:231-245: merges the object at source into the object at target.
mergeValues(heap, target, source) ==
    MergeKeys(heap, target, source, DOMAIN heap[source])

\* The service and environment that ResolveValues reads.
ServiceName == "api"
Registry == "msc-registry"
Version == "1.0.0"
DomainName == "platform.local"

ChartNames == {"microservice", "postgresql", "other"}

\* values.go:61-107
getChartDefaults(chartName) ==
    IF chartName = "microservice"
    THEN [replicaCount |-> Scalar("1"),
          image |-> Mapping([pullPolicy |-> Scalar("IfNotPresent")]),
          service |-> Mapping([type |-> Scalar("ClusterIP"), port |-> Scalar("80")]),
          ingress |-> Mapping([enabled |-> Scalar("true"), className |-> Scalar("nginx")]),
          resources |-> Mapping([limits |-> Mapping([cpu |-> Scalar("500m"),
                                                      memory |-> Scalar("512Mi")]),
                                 requests |-> Mapping([cpu |-> Scalar("100m"),
                                                        memory |-> Scalar("128Mi")])]),
          autoscaling |-> Mapping([enabled |-> Scalar("false")])]
    ELSE IF chartName = "postgresql"
    THEN [auth |-> Mapping([postgresPassword |-> Scalar("development"),
                            database |-> Scalar("app")]),
          primary |-> Mapping([persistence |-> Mapping([enabled |-> Scalar("false")])])]
    ELSE NoEntries

\* values.go:131-169
buildLocalOverrides(service) ==
    IF service.isLocal
    THEN LET base == [image |-> Mapping([repository |-> Scalar(ServiceName),
                                         tag |-> Scalar("dev"),
                                         pullPolicy |-> Scalar("Never")]),
                      fullnameOverride |-> Scalar(ServiceName),
                      resources |-> Mapping([limits |-> Mapping(NoEntries),
                                             requests |-> Mapping(NoEntries)])]
         IN IF service.localSource
            THEN Extend(base, "podAnnotations",
                        Mapping([source |-> Scalar("path"), dockerfile |-> Scalar("Dockerfile")]))
            ELSE base
    ELSE [image |-> Mapping([repository |-> Scalar(Registry \o "/" \o ServiceName),
                             tag |-> Scalar(Version),
                             pullPolicy |-> Scalar("IfNotPresent")])]

\* values.go:172-228: envOrder is the order in which the range over
\* service.Environment visits its keys.
buildRuntimeOverrides(service, envOrder) ==
    LET ingress == IF service.domain # ""
                   THEN Extend(NoEntries, "ingress",
                               Mapping([enabled |-> Scalar("true"),
                                        hosts |-> List(ServiceName \o "." \o service.domain)]))
                   ELSE NoEntries
        env == IF service.environment
               THEN Extend(ingress, "env", List(envOrder))
               ELSE ingress
        port == IF Len(service.ports) > 0
                THEN Extend(env, "service", Mapping([port |-> Scalar(service.ports[1])]))
                ELSE env
    IN IF Len(service.ports) > 1
       THEN Extend(port, "containerPorts", List("port-0,port-1"))
       ELSE port

\* values.go:110-128: the file is read and decoded, or the load fails.
loadValuesFile(service) ==
    IF service.valuesFile = "values.yml"
    THEN [err |-> FALSE, values |-> service.fileValues]
    ELSE [err |-> TRUE, values |-> NoEntries]

\* ResolveValues with the local/registry overrides merged before the inline
\* values and the values file instead of after them.
ResolveValues_OverridesFirst(service, envOrder) ==
    LET given == Alloc(<<>>, service.values)
        values == Alloc(given.heap, NoEntries)
        defaults == Alloc(values.heap, getChartDefaults(service.chart))
        h1 == mergeValues(defaults.heap, values.addr, defaults.addr)
        localOverrides == Alloc(h1, buildLocalOverrides(service))
        h2 == mergeValues(localOverrides.heap, values.addr, localOverrides.addr)
        h3 == IF service.valuesNil THEN h2 ELSE mergeValues(h2, values.addr, given.addr)
        loaded == loadValuesFile(service)
        fileErr == service.valuesFile # "" /\ loaded.err
        fileValues == Alloc(h3, loaded.values)
        h4 == IF service.valuesFile = "" THEN h3
              ELSE mergeValues(fileValues.heap, values.addr, fileValues.addr)
        runtimeOverrides == Alloc(h4, buildRuntimeOverrides(service, envOrder))
        h5 == mergeValues(runtimeOverrides.heap, values.addr, runtimeOverrides.addr)
    IN IF fileErr
       THEN [err |-> TRUE, values |-> NoEntries, inline |-> Load(h3, given.addr)]
       ELSE [err |-> FALSE, values |-> Load(h5, values.addr),
             inline |-> Load(h5, given.addr)]

\* values.go:25-58.  service.Values lives on the heap before the call; the
\* call returns the resolved tree (or the error of the file load) and
\* leaves the heap, of which inline shows what service.Values holds then.
ResolveValues(service, envOrder) ==
    LET given == Alloc(<<>>, service.values)
        values == Alloc(given.heap, NoEntries)
        defaults == Alloc(values.heap, getChartDefaults(service.chart))
        h1 == mergeValues(defaults.heap, values.addr, defaults.addr)
        h2 == IF service.valuesNil THEN h1 ELSE mergeValues(h1, values.addr, given.addr)
        loaded == loadValuesFile(service)
        fileErr == service.valuesFile # "" /\ loaded.err
        fileValues == Alloc(h2, loaded.values)
        h3 == IF service.valuesFile = "" THEN h2
              ELSE mergeValues(fileValues.heap, values.addr, fileValues.addr)
        localOverrides == Alloc(h3, buildLocalOverrides(service))
        h4 == mergeValues(localOverrides.heap, values.addr, localOverrides.addr)
        runtimeOverrides == Alloc(h4, buildRuntimeOverrides(service, envOrder))
        h5 == mergeValues(runtimeOverrides.heap, values.addr, runtimeOverrides.addr)
    IN IF fileErr
       THEN [err |-> TRUE, values |-> NoEntries, inline |-> Load(h2, given.addr)]
       ELSE [err |-> FALSE, values |-> Load(h5, values.addr),
             inline |-> Load(h5, given.addr)]

\* A float64 scalar: what the YAML decoder yields for a number written with
\* a fraction or an exponent.  Integers decode to int and are Scalars.
Float(s) == [kind |-> "float", s |-> s, m |-> NoEntries]

FloatPorts == {"0.0", "0.5", "80.0", "65535.5", "70000.0"}

\* values.go:272: int(portFloat) truncates toward zero.
ToInt(s) ==
    CASE s = "0.0" -> 0
      [] s = "0.5" -> 0
      [] s = "80.0" -> 80
      [] s = "65535.5" -> 65535
      [] s = "70000.0" -> 70000

\* values.go:252-265
ImageErrors(values) ==
    IF "image" \in DOMAIN values
    THEN IF values["image"].kind = "map"
         THEN (IF "repository" \notin DOMAIN values["image"].m
               THEN <<"missing image.repository">> ELSE <<>>)
              \o (IF "tag" \notin DOMAIN values["image"].m
                  THEN <<"missing image.tag">> ELSE <<>>)
         ELSE <<"image configuration must be an object">>
    ELSE <<"missing required image configuration">>

\* values.go:268-278: only a port that asserts to float64 is range-checked.
PortErrors(values) ==
    IF /\ "service" \in DOMAIN values
       /\ values["service"].kind = "map"
       /\ "port" \in DOMAIN values["service"].m
       /\ values["service"].m["port"].kind = "float"
       /\ LET portInt == ToInt(values["service"].m["port"].s)
          IN portInt < 1 \/ portInt > 65535
    THEN <<"invalid service port">>
    ELSE <<>>

\* Variant of ValidateValues that reports an image block only when it holds
\* neither a repository nor a tag.
ValidateValues_BothMissing(service, values) ==
    LET lacksBoth == /\ "image" \in DOMAIN values
                     /\ values["image"].kind = "map"
                     /\ "repository" \notin DOMAIN values["image"].m
                     /\ "tag" \notin DOMAIN values["image"].m
        errors == (IF "image" \in DOMAIN values /\ values["image"].kind = "map" /\ ~lacksBoth
                   THEN <<>> ELSE ImageErrors(values))
                  \o PortErrors(values)
    IN [err |-> Len(errors) > 0, errors |-> errors]

\* values.go:248-311: the errors collected, and whether an error is
\* returned.  The ingress and resource checks only print warnings.
ValidateValues(service, values) ==
    LET errors == ImageErrors(values) \o PortErrors(values)
    IN [err |-> Len(errors) > 0, errors |-> errors]

\* ------------------------------------------------- orchestration: bounds
\* SpecShared: operations each environment may invoke in one run.
\* SpecUp / SpecDown: dependency entries of the environments they draw.
MaxOps == 1
DeployMaxDeps == 1

\* cluster.go:177-178: readiness deadline and polling interval, in seconds.
ReadyTimeout == 60
PollInterval == 2

Envs == {"envA", "envB"}

\* Who installed a release: an environment, or somebody outside the model.
Owners == Envs \cup {"foreign"}

\* services.go:451-454
getReleaseName(serviceName, rt) == serviceName

\* services.go:457-474: releases is the set of names the provider listed.
filterPlatReleases(releases, rt) ==
    LET expectedServices ==
            rt.services \cup {getReleaseName(s, rt) : s \in rt.services}
    IN {r \in releases : r \in expectedServices}

\* Variant of releaseExists that takes every service to have a release.
releaseExists_Always(serviceName, plat, rt) ==
    serviceName \in rt.services

\* services.go:176-188: the services of a level for which a goroutine is
\* spawned, i.e. those with a release in the filtered list.
releaseExists(serviceName, plat, rt) ==
    \E release \in plat :
        release = serviceName \/ release = getReleaseName(serviceName, rt)

SeqToSet(q) == {q[i] : i \in 1..Len(q)}

\* --------------------------------------------------------------- variables
VARIABLES
    gInput,         \* SpecLevels: the runtime handed to the leveling function
    gCalled,        \* SpecLevels: the function has been called on gInput
    gResult,        \* SpecLevels: the value it returned (levels, err)
    qInput,         \* SpecStatus: the environment and the provider's answers
    qCalled,        \* SpecStatus: "none", "GetServiceStatuses" or "Status"
    qResult,        \* SpecStatus: the value the call returned
    vInput,         \* SpecMerge / SpecResolve: the trees or the service handed to the call
    vCalled,        \* SpecMerge / SpecResolve: "none", "mergeValues" or "ResolveValues"
    vResult,        \* SpecMerge / SpecResolve: what the call returned and left behind
    tools,          \* SpecCli: which of the required external tools are installed
    cli,            \* SpecCli, per environment: the command or dashboard action under way
    runtime,        \* per environment: its RuntimeConfig
    namespace,      \* helm namespace shared by all: release name -> owner or "none"
    opsLeft,        \* per environment: invocations still allowed
    history,        \* per environment: summaries of the calls that returned, in order
    op,             \* per environment: "none", "Up" or "Down" (the running or last call)
    deleteCluster,  \* per environment: Down's deleteCluster argument
    pc,             \* per environment: position of the calling goroutine
    ret,            \* per environment: "none" while running, then "ok" or the error returned
    serviceLevels,  \* per environment: the level list of the running call
    levelIdx,       \* per environment: index (1-based) of the level being processed
    platReleases,   \* per environment: UndeployServices' filtered release list
    wstate,         \* per environment, per service: position of its goroutine
    wout,           \* per environment, per service: "none", "ok", "fail" of deployService / UninstallChart
    attempts,       \* per environment, per release name: provider calls issued in this call
    wg,             \* per environment: sync.WaitGroup counter of the level
    resultChan,     \* per environment: buffered channel of the level
    chanClosed,     \* per environment: the channel has been closed
    errors,         \* per environment: errors collected from the channel, in order
    received,       \* per environment: services whose result was taken from the channel
    retNames,       \* per environment: service names in the level error returned
    undeployRet,    \* per environment: what UndeployServices returned ("none" before)
    createCalls,    \* per environment: CreateCluster calls in this call
    deleteCalls,    \* per environment: DeleteCluster calls in this call
    polls,          \* per environment: status polls made by waitForClusterReady
    firstStatus,    \* per environment: what EnsureCluster's first status query found
    clusterErr,     \* per environment: the cluster provider call that failed in this call
    pollStatus,     \* per environment: what the polls of waitForClusterReady reported so far
    removedOwners,  \* per environment: owners of the releases its uninstalls removed
    helmCall,       \* SpecDeployService: the release handed to InstallChart, if any
    validation,     \* SpecDeployService: the errors ValidateValues reported
    unitErr,        \* SpecDeployService: "none", then what deployService returned
    view,           \* SpecTui: the view shown, "HomeView" or "ServiceLogsView"
    logStreaming,   \* SpecTui: Model.logStreaming
    logStreamCmd,   \* SpecTui: Model.logStreamCmd, a process id or 0 for nil
    logStreamReader,\* SpecTui: Model.logStreamReader, the pipe of a process or 0 for nil
    logBufioReader, \* SpecTui: Model.logBufioReader, the pipe it reads or 0 for nil
    logsInitialized,\* SpecTui: Model.logsInitialized
    rawLogs,        \* SpecTui: number of lines held by Model.rawLogs
    procs,          \* SpecTui: the kubectl --follow processes that are running
    started,        \* SpecTui: stream processes started so far
    fetching,       \* SpecTui: fetchLogs commands that have not delivered their logsMsg
    waiting,        \* SpecTui: waitForLogLine commands that have not delivered their message
    keysLeft        \* SpecTui: key presses still allowed

levelVars == <<gInput, gCalled, gResult>>
statusVars == <<qInput, qCalled, qResult>>
valuesVars == <<vInput, vCalled, vResult>>
cliVars == <<tools, cli>>
envVars == <<runtime, opsLeft, history>>
callVars == <<op, deleteCluster, pc, ret>>
fanVars == <<serviceLevels, levelIdx, platReleases, wstate, wout, attempts, wg,
             resultChan, chanClosed, errors, received, retNames, undeployRet>>
clusterVars == <<createCalls, deleteCalls, polls, firstStatus, clusterErr, pollStatus>>
unitVars == <<helmCall, validation, unitErr>>
tuiVars == <<view, logStreaming, logStreamCmd, logStreamReader, logBufioReader,
             logsInitialized, rawLogs, procs, started, fetching, waiting,
             keysLeft>>
vars == <<levelVars, statusVars, unitVars, tuiVars, valuesVars, cliVars, envVars, callVars, fanVars, clusterVars, namespace, removedOwners>>

NoResult == [levels |-> <<>>, err |-> FALSE]

\* The state of an environment on which nothing runs.
InitOrchestrator ==
    /\ op = [e \in Envs |-> "none"]
    /\ deleteCluster = [e \in Envs |-> FALSE]
    /\ pc = [e \in Envs |-> "idle"]
    /\ ret = [e \in Envs |-> "none"]
    /\ serviceLevels = [e \in Envs |-> <<>>]
    /\ levelIdx = [e \in Envs |-> 0]
    /\ platReleases = [e \in Envs |-> {}]
    /\ wstate = [e \in Envs |-> [n \in Names |-> "none"]]
    /\ wout = [e \in Envs |-> [n \in Names |-> "none"]]
    /\ attempts = [e \in Envs |-> [n \in Names |-> 0]]
    /\ wg = [e \in Envs |-> 0]
    /\ resultChan = [e \in Envs |-> <<>>]
    /\ chanClosed = [e \in Envs |-> FALSE]
    /\ errors = [e \in Envs |-> <<>>]
    /\ received = [e \in Envs |-> <<>>]
    /\ retNames = [e \in Envs |-> {}]
    /\ undeployRet = [e \in Envs |-> "none"]
    /\ createCalls = [e \in Envs |-> 0]
    /\ deleteCalls = [e \in Envs |-> 0]
    /\ polls = [e \in Envs |-> 0]
    /\ firstStatus = [e \in Envs |-> "none"]
    /\ clusterErr = [e \in Envs |-> "none"]
    /\ pollStatus = [e \in Envs |-> "none"]
    /\ removedOwners = [e \in Envs |-> {}]

\* The idle state of the variables of SpecMerge, SpecResolve and SpecCli.
NoValuesInput == [target |-> NoEntries, source |-> NoEntries]

NoValuesResult == [err |-> FALSE, values |-> NoEntries, inline |-> NoEntries]

NoValuesCall ==
    /\ vInput = NoValuesInput
    /\ vCalled = "none"
    /\ vResult = NoValuesResult

\* deployService has not been called.
NoRelease == [called |-> FALSE, values |-> NoEntries, valuesFiles |-> <<>>]

NoUnit ==
    /\ helmCall = NoRelease
    /\ validation = <<>>
    /\ unitErr = "none"

\* The dashboard is not running.
NoTui ==
    /\ view = "HomeView"
    /\ logStreaming = FALSE
    /\ logStreamCmd = 0
    /\ logStreamReader = 0
    /\ logBufioReader = 0
    /\ logsInitialized = FALSE
    /\ rawLogs = 0
    /\ procs = {}
    /\ started = 0
    /\ fetching = 0
    /\ waiting = 0
    /\ keysLeft = 0

\* No command line or dashboard action is under way.
NoCommand == [cmd |-> "none", stage |-> "none", prereq |-> "unchecked"]

NoCli ==
    /\ tools = [k3d |-> TRUE, helm |-> TRUE]
    /\ cli = [e \in Envs |-> NoCommand]

\* ---------------------------------------------------------------- SpecStatus
\* What the status queries read: the environment, the state of the release
\* of each name in the namespace ("none" when there is no such release),
\* the names whose status query fails although the release exists, and the
\* outcome of the cluster status query ("error" when it fails).
ReleaseStates == {"none", "deployed", "failed"}

ClusterStates == {"error", "running", "stopped"}

StatusInputs ==
    [rt : Runtimes(Names, 0), releases : [Names -> ReleaseStates],
     broken : SUBSET Names, cluster : ClusterStates]

EmptyStatusInput ==
    [rt |-> EmptyRuntime, releases |-> [n \in Names |-> "none"],
     broken |-> {}, cluster |-> "error"]

NoCluster == [status |-> "", error |-> ""]

NoStatusResult == [err |-> FALSE, statuses |-> <<>>, cluster |-> NoCluster]

NoStatusCall ==
    /\ qInput = EmptyStatusInput
    /\ qCalled = "none"
    /\ qResult = NoStatusResult

\* part_012:120-178: the status query of one release fails when the release
\* is not found or helm fails otherwise, and else reports the release state.
GetReleaseStatus(in, releaseName) ==
    IF in.releases[releaseName] = "none" \/ releaseName \in in.broken
    THEN [err |-> TRUE, status |-> ""]
    ELSE [err |-> FALSE, status |-> in.releases[releaseName]]

\* Variant of GetServiceStatuses that fails when a status query fails.
GetServiceStatuses_FailOnError(in) ==
    IF \E s \in in.rt.services : GetReleaseStatus(in, getReleaseName(s, in.rt)).err
    THEN [err |-> TRUE, statuses |-> <<>>]
    ELSE [err |-> FALSE,
          statuses |-> [s \in in.rt.services |->
                          GetReleaseStatus(in, getReleaseName(s, in.rt)).status]]

\* services.go:228-249: one entry per service, a placeholder for every
\* query that failed; the error returned is always nil.
GetServiceStatuses(in) ==
    [err |-> FALSE,
     statuses |-> [s \in in.rt.services |->
                     LET q == GetReleaseStatus(in, getReleaseName(s, in.rt))
                     IN IF q.err THEN "not-deployed" ELSE q.status]]

\* orchestrator.go:89-102: the cluster part of the snapshot.
ClusterPart(in) ==
    IF in.cluster = "error"
    THEN [status |-> "not-found", error |-> "failed to get k3d cluster status"]
    ELSE [status |-> in.cluster, error |-> ""]

\* Variant of Status that fails when the cluster status query fails.
Status_FailOnClusterError(in) ==
    LET serviceStatuses == GetServiceStatuses(in) IN
    IF serviceStatuses.err \/ in.cluster = "error"
    THEN [err |-> TRUE, statuses |-> <<>>, cluster |-> NoCluster]
    ELSE [err |-> FALSE,
          statuses |-> [s \in in.rt.services |-> serviceStatuses.statuses[s]],
          cluster |-> ClusterPart(in)]

\* orchestrator.go:81-134: the snapshot, or the error of GetServiceStatuses.
Status(in) ==
    LET serviceStatuses == GetServiceStatuses(in) IN
    IF serviceStatuses.err
    THEN [err |-> TRUE, statuses |-> <<>>, cluster |-> NoCluster]
    ELSE [err |-> FALSE,
          statuses |-> [s \in in.rt.services |-> serviceStatuses.statuses[s]],
          cluster |-> ClusterPart(in)]

InitStatus ==
    /\ gInput = EmptyRuntime
    /\ gCalled = FALSE
    /\ gResult = NoResult
    /\ qInput \in StatusInputs
    /\ qCalled = "none"
    /\ qResult = NoStatusResult
    /\ NoValuesCall
    /\ NoCli
    /\ NoUnit
    /\ NoTui
    /\ runtime = [e \in Envs |-> EmptyRuntime]
    /\ opsLeft = [e \in Envs |-> 0]
    /\ history = [e \in Envs |-> <<>>]
    /\ namespace = [n \in Names |-> "none"]
    /\ InitOrchestrator

CallGetServiceStatuses ==
    /\ qCalled = "none"
    /\ qCalled' = "GetServiceStatuses"
    /\ qResult' = LET r == GetServiceStatuses(qInput)
                  IN [err |-> r.err, statuses |-> r.statuses, cluster |-> NoCluster]
    /\ UNCHANGED <<levelVars, qInput, unitVars, tuiVars, valuesVars, cliVars, envVars, callVars, fanVars, clusterVars,
                   namespace, removedOwners>>

CallStatus ==
    /\ qCalled = "none"
    /\ qCalled' = "Status"
    /\ qResult' = Status(qInput)
    /\ UNCHANGED <<levelVars, qInput, unitVars, tuiVars, valuesVars, cliVars, envVars, callVars, fanVars, clusterVars,
                   namespace, removedOwners>>

NextStatus == CallGetServiceStatuses \/ CallStatus

SpecStatus == InitStatus /\ [][NextStatus]_vars

\* ----------------------------------------------------------------- SpecMerge
\* mergeValues applied to every pair of bounded trees.
MergeEntries == 2

MergeKeySet == {"x", "y"}

MergeScalars == {"1", "2"}

MergeMaps == ValueMaps(MergeKeySet, MergeKeySet, MergeScalars, MergeEntries)

\* The variables of the orchestrator and of the other pure functions, idle.
IdleOrchestrator ==
    /\ gInput = EmptyRuntime
    /\ gCalled = FALSE
    /\ gResult = NoResult
    /\ NoStatusCall
    /\ NoCli
    /\ NoUnit
    /\ NoTui
    /\ runtime = [e \in Envs |-> EmptyRuntime]
    /\ opsLeft = [e \in Envs |-> 0]
    /\ history = [e \in Envs |-> <<>>]
    /\ namespace = [n \in Names |-> "none"]
    /\ InitOrchestrator

InitMerge ==
    /\ vInput \in [target : MergeMaps, source : MergeMaps]
    /\ vCalled = "none"
    /\ vResult = NoValuesResult
    /\ IdleOrchestrator

\* The target and the source are two fresh trees; the call returns nothing,
\* the result is what the target holds afterwards (inline: the source).
CallMergeValues ==
    /\ vCalled = "none"
    /\ vCalled' = "mergeValues"
    /\ vResult' = LET target == Alloc(<<>>, vInput.target)
                      source == Alloc(target.heap, vInput.source)
                      heap == mergeValues(source.heap, target.addr, source.addr)
                  IN [err |-> FALSE, values |-> Load(heap, target.addr),
                      inline |-> Load(heap, source.addr)]
    /\ UNCHANGED <<levelVars, statusVars, unitVars, tuiVars, vInput, cliVars, envVars, callVars, fanVars,
                   clusterVars, namespace, removedOwners>>

NextMerge == CallMergeValues

SpecMerge == InitMerge /\ [][NextMerge]_vars

\* --------------------------------------------------------------- SpecResolve
\* ResolveValues applied to every bounded service.
InlineEntries == 3

InlineMaps == ValueMaps({"image", "resources"}, {"tag", "limits"}, {"inline"}, InlineEntries)

FileContents ==
    {Extend(NoEntries, "image", Mapping(Extend(NoEntries, "tag", Scalar("file")))),
     Extend(NoEntries, "resources", Scalar("file")),
     [image |-> Mapping([repository |-> Scalar("file"), pullPolicy |-> Scalar("file")]),
      service |-> Mapping([port |-> Float("70000.0")])]}

PortLists == {<<>>, <<"8080">>, <<"8080", "9090">>}

EnvOrders == {"A,B", "B,A"}

Services ==
    {s \in [chart : ChartNames, isLocal : BOOLEAN, localSource : BOOLEAN,
            valuesNil : BOOLEAN, values : InlineMaps,
            valuesFile : {"", "missing.yml", "values.yml"},
            fileValues : FileContents \cup {NoEntries},
            domain : {"", DomainName}, environment : BOOLEAN, ports : PortLists] :
        /\ s.localSource => s.isLocal
        /\ s.valuesNil => s.values = NoEntries
        /\ (s.valuesFile = "values.yml") <=> (s.fileValues # NoEntries)}

InitResolve ==
    /\ vInput \in Services
    /\ vCalled = "none"
    /\ vResult = NoValuesResult
    /\ IdleOrchestrator

CallResolveValues ==
    /\ vCalled = "none"
    /\ vCalled' = "ResolveValues"
    /\ \E envOrder \in EnvOrders :
         /\ ~vInput.environment => envOrder = "A,B"
         /\ vResult' = ResolveValues(vInput, envOrder)
    /\ UNCHANGED <<levelVars, statusVars, unitVars, tuiVars, vInput, cliVars, envVars, callVars, fanVars,
                   clusterVars, namespace, removedOwners>>

NextResolve == CallResolveValues

SpecResolve == InitResolve /\ [][NextResolve]_vars

\* --------------------------------------------------------- SpecDeployService
\* deployService applied to every bounded service: the values are resolved
\* and validated, and the release is handed to the helm provider, whose
\* InstallChart succeeds or fails.
Release(service, values) ==
    [called |-> TRUE, values |-> values,
     valuesFiles |-> IF service.valuesFile # "" THEN <<service.valuesFile>> ELSE <<>>]

\* The services deployService is applied to: those of SpecResolve without
\* a local source path and without environment variables, which only add
\* the podAnnotations and env entries to the values.
DeployInputs == {s \in Services : ~s.localSource /\ ~s.environment}

InitDeployService ==
    /\ vInput \in DeployInputs
    /\ vCalled = "none"
    /\ vResult = NoValuesResult
    /\ IdleOrchestrator

\* Variant of deployService that returns the validation error instead of
\* installing.
deployService_ValidationBlocks ==
    /\ vCalled = "none"
    /\ vCalled' = "deployService"
    /\ \E envOrder \in EnvOrders, installed \in BOOLEAN :
         /\ ~vInput.environment => envOrder = "A,B"
         /\ LET resolved == ResolveValues(vInput, envOrder)
                checked == ValidateValues(vInput, resolved.values)
            IN /\ vResult' = resolved
               /\ IF resolved.err
                  THEN /\ validation' = <<>>
                       /\ helmCall' = NoRelease
                       /\ unitErr' = "failed to resolve values"
                  ELSE IF checked.err
                  THEN /\ validation' = checked.errors
                       /\ helmCall' = NoRelease
                       /\ unitErr' = "validation failed"
                  ELSE /\ validation' = checked.errors
                       /\ helmCall' = Release(vInput, resolved.values)
                       /\ unitErr' = IF installed THEN "nil" ELSE "helm deployment failed"
    /\ UNCHANGED <<levelVars, statusVars, tuiVars, vInput, cliVars,
                   envVars, callVars, fanVars, clusterVars, namespace, removedOwners>>

\* services.go:289-324
deployService ==
    /\ vCalled = "none"
    /\ vCalled' = "deployService"
    /\ \E envOrder \in EnvOrders, installed \in BOOLEAN :
         /\ ~vInput.environment => envOrder = "A,B"
         /\ LET resolved == ResolveValues(vInput, envOrder)
                checked == ValidateValues(vInput, resolved.values)
            IN /\ vResult' = resolved
               /\ IF resolved.err
                  THEN /\ validation' = <<>>
                       /\ helmCall' = NoRelease
                       /\ unitErr' = "failed to resolve values"
                  ELSE /\ validation' = checked.errors
                       /\ helmCall' = Release(vInput, resolved.values)
                       /\ unitErr' = IF installed THEN "nil" ELSE "helm deployment failed"
    /\ UNCHANGED <<levelVars, statusVars, tuiVars, vInput, cliVars,
                   envVars, callVars, fanVars, clusterVars, namespace, removedOwners>>

NextDeployService == deployService

SpecDeployService == InitDeployService /\ [][NextDeployService]_vars

\* -------------------------------------------------------------- SpecValidate
\* ValidateValues applied to values trees with every shape of image block
\* and of service port.
WithKey(trees, k, vs) == trees \cup {Extend(t, k, v) : t \in trees, v \in vs}

ImageBlocks ==
    {Scalar("img")} \cup
    {Mapping(m) : m \in WithKey(WithKey(WithKey({NoEntries}, "repository", {Scalar("x")}),
                                         "tag", {Scalar("x")}),
                                 "pullPolicy", {Scalar("x")})}

ServiceBlocks ==
    {Scalar("svc"), Mapping(NoEntries), Mapping([port |-> Scalar("8080")])} \cup
    {Mapping([port |-> Float(f)]) : f \in FloatPorts}

ValidateInputs ==
    [service : [isLocal : BOOLEAN],
     values : WithKey(WithKey({NoEntries}, "image", ImageBlocks), "service", ServiceBlocks)]

InitValidate ==
    /\ vInput \in ValidateInputs
    /\ vCalled = "none"
    /\ vResult = NoValuesResult
    /\ IdleOrchestrator

CallValidateValues ==
    /\ vCalled = "none"
    /\ vCalled' = "ValidateValues"
    /\ LET checked == ValidateValues(vInput.service, vInput.values)
       IN /\ validation' = checked.errors
          /\ vResult' = [err |-> checked.err, values |-> vInput.values, inline |-> NoEntries]
    /\ UNCHANGED <<levelVars, statusVars, helmCall, unitErr, tuiVars, vInput, cliVars,
                   envVars, callVars, fanVars, clusterVars, namespace, removedOwners>>

NextValidate == CallValidateValues

SpecValidate == InitValidate /\ [][NextValidate]_vars

\* ---------------------------------------------------------------- SpecLevels
InitLevels ==
    /\ gInput \in Runtimes(Names, MaxDeps)
    /\ gCalled = FALSE
    /\ gResult = NoResult
    /\ NoStatusCall
    /\ NoValuesCall
    /\ NoCli
    /\ NoUnit
    /\ NoTui
    /\ runtime = [e \in Envs |-> EmptyRuntime]
    /\ opsLeft = [e \in Envs |-> 0]
    /\ history = [e \in Envs |-> <<>>]
    /\ namespace = [n \in Names |-> "none"]
    /\ InitOrchestrator

Group ==
    /\ ~gCalled
    /\ gCalled' = TRUE
    /\ \E order \in MapOrders(gInput.services) :
         gResult' = groupServicesByDependencyLevel(gInput, order)
    /\ UNCHANGED <<gInput, statusVars, unitVars, tuiVars, valuesVars, cliVars, envVars, callVars, fanVars, clusterVars,
                   namespace, removedOwners>>

NextLevels == Group

SpecLevels == InitLevels /\ [][NextLevels]_vars

\* ------------------------------------------------ Up: orchestrator.go:27-50
\* A call of the cluster or helm provider returned an error during the call
\* of environment e: cluster creation, the wait for the cluster, cluster
\* deletion, the listing of releases, an install or an uninstall.
ProviderFailed(e) ==
    \/ clusterErr[e] # "none"
    \/ undeployRet[e] = "failed to list helm releases"
    \/ \E s \in Names :
         wout[e][s] = "fail" /\ attempts[e][getReleaseName(s, runtime[e])] > 0

\* Releases for which the call of environment e issued an install or an
\* uninstall call.
HelmCalls(e) == {n \in Names : attempts[e][n] > 0}

\* What the caller can observe once a call has returned: the operation, its
\* result, the provider calls made, and the releases of the environment's
\* services left in the namespace.
CallSummary(e) ==
    [op |-> op[e], ret |-> ret[e], providerFailed |-> ProviderFailed(e),
     helmCalls |-> HelmCalls(e),
     remaining |-> {s \in runtime[e].services :
                      namespace[getReleaseName(s, runtime[e])] # "none"}]

\* A call starts with fresh locals; the namespace is the provider's state.
BeginCall(e, name, del) ==
    /\ pc[e] = "idle"
    /\ opsLeft[e] > 0
    /\ opsLeft' = [opsLeft EXCEPT ![e] = @ - 1]
    /\ history' = [history EXCEPT ![e] =
                      IF op[e] = "none" THEN @ ELSE Append(@, CallSummary(e))]
    /\ op' = [op EXCEPT ![e] = name]
    /\ deleteCluster' = [deleteCluster EXCEPT ![e] = del]
    /\ ret' = [ret EXCEPT ![e] = "none"]
    /\ serviceLevels' = [serviceLevels EXCEPT ![e] = <<>>]
    /\ levelIdx' = [levelIdx EXCEPT ![e] = 0]
    /\ platReleases' = [platReleases EXCEPT ![e] = {}]
    /\ wstate' = [wstate EXCEPT ![e] = [n \in Names |-> "none"]]
    /\ wout' = [wout EXCEPT ![e] = [n \in Names |-> "none"]]
    /\ attempts' = [attempts EXCEPT ![e] = [n \in Names |-> 0]]
    /\ wg' = [wg EXCEPT ![e] = 0]
    /\ resultChan' = [resultChan EXCEPT ![e] = <<>>]
    /\ chanClosed' = [chanClosed EXCEPT ![e] = FALSE]
    /\ errors' = [errors EXCEPT ![e] = <<>>]
    /\ received' = [received EXCEPT ![e] = <<>>]
    /\ retNames' = [retNames EXCEPT ![e] = {}]
    /\ undeployRet' = [undeployRet EXCEPT ![e] = "none"]
    /\ createCalls' = [createCalls EXCEPT ![e] = 0]
    /\ deleteCalls' = [deleteCalls EXCEPT ![e] = 0]
    /\ polls' = [polls EXCEPT ![e] = 0]
    /\ firstStatus' = [firstStatus EXCEPT ![e] = "none"]
    /\ clusterErr' = [clusterErr EXCEPT ![e] = "none"]
    /\ pollStatus' = [pollStatus EXCEPT ![e] = "none"]
    /\ removedOwners' = [removedOwners EXCEPT ![e] = {}]
    /\ UNCHANGED <<levelVars, statusVars, unitVars, tuiVars, valuesVars, runtime, namespace>>

Up(e) ==
    /\ BeginCall(e, "Up", FALSE)
    /\ UNCHANGED cliVars
    /\ pc' = [pc EXCEPT ![e] = "ensure"]

IsErr(r) == r \notin {"none", "ok"}

\* The call of environment e returns r.
Return(e, r) ==
    /\ pc' = [pc EXCEPT ![e] = "idle"]
    /\ ret' = [ret EXCEPT ![e] = r]

\* Variant of EnsureCluster that creates the cluster whatever the status
\* query reports.
EnsureCluster_AlwaysCreate(e) ==
    /\ pc[e] = "ensure"
    /\ \E running \in BOOLEAN :
         firstStatus' = [firstStatus EXCEPT ![e] =
                            IF running THEN "running" ELSE "not-running"]
    /\ pc' = [pc EXCEPT ![e] = "create"]
    /\ UNCHANGED <<levelVars, statusVars, unitVars, tuiVars, valuesVars, cliVars,
                   envVars, op, deleteCluster, ret, fanVars,
                   createCalls, deleteCalls, polls, clusterErr, pollStatus, namespace,
                   removedOwners>>

\* cluster.go:35-42: the first status query of EnsureCluster; a failing
\* query and a state other than running both lead to CreateCluster.
EnsureCluster(e) ==
    /\ pc[e] = "ensure"
    /\ \E running \in BOOLEAN :
         /\ firstStatus' = [firstStatus EXCEPT ![e] =
                               IF running THEN "running" ELSE "not-running"]
         /\ pc' = [pc EXCEPT ![e] = IF running THEN "deploy" ELSE "create"]
    /\ UNCHANGED <<levelVars, statusVars, unitVars, tuiVars, valuesVars, cliVars,
                   envVars, op, deleteCluster, ret, fanVars,
                   createCalls, deleteCalls, polls, clusterErr, pollStatus, namespace,
                   removedOwners>>

\* Variant of CreateFailed that calls CreateCluster again.
CreateFailed_Retry(e) ==
    /\ pc' = pc
    /\ ret' = ret
    /\ clusterErr' = [clusterErr EXCEPT ![e] = "create"]

\* cluster.go:50-52 and orchestrator.go:33-35: the error of CreateCluster
\* is wrapped and returned by EnsureCluster and by Up.
CreateFailed(e) ==
    /\ Return(e, "cluster setup failed: failed to create cluster")
    /\ clusterErr' = [clusterErr EXCEPT ![e] = "create"]

\* Variant of CreateCluster that goes on to the services when the creation
\* failed.
CreateCluster_IgnoreFailure(e) ==
    /\ pc[e] = "create"
    /\ createCalls' = [createCalls EXCEPT ![e] = @ + 1]
    /\ \E ok \in BOOLEAN :
         IF ok THEN pc' = [pc EXCEPT ![e] = "wait"] /\ UNCHANGED <<ret, clusterErr>>
         ELSE /\ pc' = [pc EXCEPT ![e] = "deploy"]
              /\ clusterErr' = [clusterErr EXCEPT ![e] = "create"]
              /\ UNCHANGED ret
    /\ UNCHANGED <<levelVars, statusVars, unitVars, tuiVars, valuesVars, cliVars,
                   envVars, op, deleteCluster, fanVars,
                   deleteCalls, polls, firstStatus, pollStatus, namespace, removedOwners>>

\* cluster.go:49-52 and orchestrator.go:33-35: CreateCluster, fatal when it
\* fails.
CreateCluster(e) ==
    /\ pc[e] = "create"
    /\ createCalls' = [createCalls EXCEPT ![e] = @ + 1]
    /\ \E ok \in BOOLEAN :
         IF ok THEN pc' = [pc EXCEPT ![e] = "wait"] /\ UNCHANGED <<ret, clusterErr>>
         ELSE CreateFailed(e)
    /\ UNCHANGED <<levelVars, statusVars, unitVars, tuiVars, valuesVars, cliVars,
                   envVars, op, deleteCluster, fanVars,
                   deleteCalls, polls, firstStatus, pollStatus, namespace, removedOwners>>

\* Variant of PollCluster that takes any answer of the status query, and
\* a failed query, for a ready cluster.
PollCluster_AnyStatus(e) ==
    /\ pc[e] = "wait"
    /\ polls[e] * PollInterval < ReadyTimeout
    /\ \E running \in BOOLEAN :
         /\ pc' = [pc EXCEPT ![e] = "deploy"]
         /\ polls' = [polls EXCEPT ![e] = 0]
         /\ pollStatus' = [pollStatus EXCEPT ![e] =
                              IF running THEN "running" ELSE "not-running"]
    /\ UNCHANGED <<levelVars, statusVars, unitVars, tuiVars, valuesVars, cliVars,
                   envVars, op, deleteCluster, ret, fanVars,
                   createCalls, deleteCalls, firstStatus, clusterErr, namespace,
                   removedOwners>>

\* cluster.go:190-205: one tick of waitForClusterReady; a failing query and
\* a state other than running both keep polling.
PollCluster(e) ==
    /\ pc[e] = "wait"
    /\ polls[e] * PollInterval < ReadyTimeout
    /\ \E running \in BOOLEAN :
         /\ IF running
            THEN pc' = [pc EXCEPT ![e] = "deploy"] /\ polls' = [polls EXCEPT ![e] = 0]
            ELSE pc' = pc /\ polls' = [polls EXCEPT ![e] = @ + 1]
         /\ pollStatus' = [pollStatus EXCEPT ![e] =
                              IF running THEN "running" ELSE "not-running"]
    /\ UNCHANGED <<levelVars, statusVars, unitVars, tuiVars, valuesVars, cliVars,
                   envVars, op, deleteCluster, ret, fanVars,
                   createCalls, deleteCalls, firstStatus, clusterErr, namespace,
                   removedOwners>>

\* Variant of ClusterTimeout for a wait without a deadline: it never fires.
ClusterTimeout_Never(e) ==
    /\ pc[e] = "wait"
    /\ ReadyTimeout < 0
    /\ Return(e, "cluster setup failed: timeout waiting for cluster")
    /\ clusterErr' = [clusterErr EXCEPT ![e] = "timeout"]
    /\ polls' = [polls EXCEPT ![e] = 0]
    /\ UNCHANGED <<levelVars, statusVars, unitVars, tuiVars, valuesVars, cliVars,
                   envVars, op, deleteCluster, fanVars,
                   createCalls, deleteCalls, firstStatus, pollStatus, namespace, removedOwners>>

\* cluster.go:188-189: the deadline (or the caller's context) is done.
ClusterTimeout(e) ==
    /\ pc[e] = "wait"
    /\ Return(e, "cluster setup failed: timeout waiting for cluster")
    /\ clusterErr' = [clusterErr EXCEPT ![e] = "timeout"]
    /\ polls' = [polls EXCEPT ![e] = 0]
    /\ UNCHANGED <<levelVars, statusVars, unitVars, tuiVars, valuesVars, cliVars,
                   envVars, op, deleteCluster, fanVars,
                   createCalls, deleteCalls, firstStatus, pollStatus, namespace, removedOwners>>

\* ------------------------------------- DeployServices: services.go:31-128
\* The channel and WaitGroup of a level, with one goroutine spawned per
\* target (services.go:75-101, 172-206).
SpawnLevel(e, targets) ==
    /\ wstate' = [wstate EXCEPT ![e] =
                    [n \in Names |-> IF n \in targets THEN "spawned" ELSE @[n]]]
    /\ wg' = [wg EXCEPT ![e] = Cardinality(targets)]
    /\ resultChan' = [resultChan EXCEPT ![e] = <<>>]
    /\ chanClosed' = [chanClosed EXCEPT ![e] = FALSE]
    /\ errors' = [errors EXCEPT ![e] = <<>>]
    /\ received' = [received EXCEPT ![e] = <<>>]

\* services.go:75, 173: make(chan, len(serviceNames)).
ChanCap(e) == Len(serviceLevels[e][levelIdx[e]])

\* services.go:31-36 and the first iteration of the loop at line 50.
DeployServices(e) ==
    /\ pc[e] = "deploy"
    /\ \E order \in MapOrders(runtime[e].services) :
       LET r == groupServicesByDependencyLevel(runtime[e], order) IN
         IF r.err \/ Len(r.levels) = 0
         THEN /\ Return(e, IF r.err THEN "service deployment failed: circular dependency"
                                    ELSE "ok")
              /\ UNCHANGED <<serviceLevels, levelIdx, wstate, wg, resultChan,
                             chanClosed, errors, received>>
         ELSE /\ serviceLevels' = [serviceLevels EXCEPT ![e] = r.levels]
              /\ levelIdx' = [levelIdx EXCEPT ![e] = 1]
              /\ SpawnLevel(e, SeqToSet(r.levels[1]))
              /\ pc' = [pc EXCEPT ![e] = "collect"]
              /\ UNCHANGED ret
    /\ UNCHANGED <<levelVars, statusVars, unitVars, tuiVars, valuesVars, cliVars,
                   envVars, op, deleteCluster, platReleases, wout,
                   attempts, retNames, undeployRet, clusterVars, namespace,
                   removedOwners>>

\* Variant of DeployWorkerStart that reports a service whose values could
\* not be resolved as deployed.
DeployWorkerStart_SwallowResolveError(e, s) ==
    /\ op[e] = "Up"
    /\ wstate[e][s] = "spawned"
    /\ \E resolved \in BOOLEAN :
         IF resolved
         THEN /\ wstate' = [wstate EXCEPT ![e][s] = "calling"]
              /\ attempts' = [attempts EXCEPT ![e][getReleaseName(s, runtime[e])] = @ + 1]
              /\ UNCHANGED wout
         ELSE /\ wstate' = [wstate EXCEPT ![e][s] = "returned"]
              /\ wout' = [wout EXCEPT ![e][s] = "ok"]
              /\ UNCHANGED attempts
    /\ UNCHANGED <<levelVars, statusVars, unitVars, tuiVars, valuesVars, cliVars,
                   envVars, callVars, serviceLevels, levelIdx,
                   platReleases, wg, resultChan, chanClosed, errors, received, retNames,
                   undeployRet, clusterVars, namespace, removedOwners>>

\* services.go:81-90 with deployService, services.go:289-319: the goroutine
\* resolves the values and then issues InstallChart; when the values file
\* cannot be loaded deployService returns the error without any provider
\* call.
DeployWorkerStart(e, s) ==
    /\ op[e] = "Up"
    /\ wstate[e][s] = "spawned"
    /\ \E resolved \in BOOLEAN :
         IF resolved
         THEN /\ wstate' = [wstate EXCEPT ![e][s] = "calling"]
              /\ attempts' = [attempts EXCEPT ![e][getReleaseName(s, runtime[e])] = @ + 1]
              /\ UNCHANGED wout
         ELSE /\ wstate' = [wstate EXCEPT ![e][s] = "returned"]
              /\ wout' = [wout EXCEPT ![e][s] = "fail"]
              /\ UNCHANGED attempts
    /\ UNCHANGED <<levelVars, statusVars, unitVars, tuiVars, valuesVars, cliVars,
                   envVars, callVars, serviceLevels, levelIdx,
                   platReleases, wg, resultChan, chanClosed, errors, received, retNames,
                   undeployRet, clusterVars, namespace, removedOwners>>

\* services.go:319-323 and 90: InstallChart returns to the goroutine.  A
\* successful call leaves the release installed by e; a failed one may leave
\* a failed release behind.
DeployWorkerReturn(e, s) ==
    /\ op[e] = "Up"
    /\ wstate[e][s] = "calling"
    /\ wstate' = [wstate EXCEPT ![e][s] = "returned"]
    /\ LET rel == getReleaseName(s, runtime[e]) IN
       \E ok \in BOOLEAN, left \in BOOLEAN :
         /\ wout' = [wout EXCEPT ![e][s] = IF ok THEN "ok" ELSE "fail"]
         /\ namespace' = IF ok \/ (left /\ namespace[rel] = "none")
                         THEN [namespace EXCEPT ![rel] = e]
                         ELSE namespace
    /\ UNCHANGED <<levelVars, statusVars, unitVars, tuiVars, valuesVars, cliVars,
                   envVars, callVars, serviceLevels, levelIdx,
                   platReleases, attempts, wg, resultChan, chanClosed, errors, received, retNames,
                   undeployRet, clusterVars, removedOwners>>

\* services.go:92-99: the goroutine sends its result, failed or not, on
\* the level's buffered channel; the send blocks while the channel is full.
DeployWorkerSend(e, s) ==
    /\ op[e] = "Up"
    /\ wstate[e][s] = "returned"
    /\ Len(resultChan[e]) < ChanCap(e)
    /\ resultChan' = [resultChan EXCEPT ![e] =
                        Append(@, [serviceName |-> s, err |-> wout[e][s] = "fail"])]
    /\ wstate' = [wstate EXCEPT ![e][s] = "sent"]
    /\ UNCHANGED <<levelVars, statusVars, unitVars, tuiVars, valuesVars, cliVars,
                   envVars, callVars, serviceLevels, levelIdx,
                   platReleases, wout, attempts, wg, chanClosed, errors, received, retNames,
                   undeployRet, clusterVars, namespace, removedOwners>>

\* Variant of DeployWorkerDone without the deferred wg.Done().
DeployWorkerDone_NoDone(e, s) ==
    /\ op[e] = "Up"
    /\ wstate[e][s] = "sent"
    /\ wstate' = [wstate EXCEPT ![e][s] = "done"]
    /\ UNCHANGED <<levelVars, statusVars, unitVars, tuiVars, valuesVars, cliVars,
                   envVars, callVars, serviceLevels, levelIdx,
                   platReleases, wout, attempts, wg, resultChan, chanClosed, errors, received, retNames,
                   undeployRet, clusterVars, namespace, removedOwners>>

\* services.go:82: the deferred wg.Done() runs when the goroutine ends.
DeployWorkerDone(e, s) ==
    /\ op[e] = "Up"
    /\ wstate[e][s] = "sent"
    /\ wstate' = [wstate EXCEPT ![e][s] = "done"]
    /\ wg' = [wg EXCEPT ![e] = @ - 1]
    /\ UNCHANGED <<levelVars, statusVars, unitVars, tuiVars, valuesVars, cliVars,
                   envVars, callVars, serviceLevels, levelIdx,
                   platReleases, wout, attempts, resultChan, chanClosed, errors, received, retNames,
                   undeployRet, clusterVars, namespace, removedOwners>>

\* Variant of DeployClose that closes the channel without wg.Wait().
DeployClose_NoWait(e) ==
    /\ op[e] = "Up"
    /\ pc[e] = "collect"
    /\ ~chanClosed[e]
    /\ chanClosed' = [chanClosed EXCEPT ![e] = TRUE]
    /\ UNCHANGED <<levelVars, statusVars, unitVars, tuiVars, valuesVars, cliVars,
                   envVars, callVars, serviceLevels, levelIdx,
                   platReleases, wstate, wout, attempts, wg, resultChan, errors, received,
                   retNames, undeployRet, clusterVars, namespace, removedOwners>>

\* services.go:104-107: the closer goroutine.
DeployClose(e) ==
    /\ op[e] = "Up"
    /\ pc[e] = "collect"
    /\ wg[e] = 0
    /\ ~chanClosed[e]
    /\ chanClosed' = [chanClosed EXCEPT ![e] = TRUE]
    /\ UNCHANGED <<levelVars, statusVars, unitVars, tuiVars, valuesVars, cliVars,
                   envVars, callVars, serviceLevels, levelIdx,
                   platReleases, wstate, wout, attempts, wg, resultChan, errors, received,
                   retNames, undeployRet, clusterVars, namespace, removedOwners>>

\* Variant of DeployCollect that records every result, failed or not.
DeployCollect_EveryResult(e) ==
    /\ op[e] = "Up"
    /\ pc[e] = "collect"
    /\ Len(resultChan[e]) > 0
    /\ errors' = [errors EXCEPT ![e] = Append(@, Head(resultChan[e]).serviceName)]
    /\ received' = [received EXCEPT ![e] = Append(@, Head(resultChan[e]).serviceName)]
    /\ resultChan' = [resultChan EXCEPT ![e] = Tail(@)]
    /\ UNCHANGED <<levelVars, statusVars, unitVars, tuiVars, valuesVars, cliVars,
                   envVars, callVars, serviceLevels, levelIdx,
                   platReleases, wstate, wout, attempts, wg, chanClosed,
                   retNames, undeployRet, clusterVars, namespace, removedOwners>>

\* services.go:110-115: one iteration of the range over resultChan.
DeployCollect(e) ==
    /\ op[e] = "Up"
    /\ pc[e] = "collect"
    /\ Len(resultChan[e]) > 0
    /\ LET result == Head(resultChan[e]) IN
         errors' = [errors EXCEPT ![e] =
                      IF result.err THEN Append(@, result.serviceName) ELSE @]
    /\ received' = [received EXCEPT ![e] = Append(@, Head(resultChan[e]).serviceName)]
    /\ resultChan' = [resultChan EXCEPT ![e] = Tail(@)]
    /\ UNCHANGED <<levelVars, statusVars, unitVars, tuiVars, valuesVars, cliVars,
                   envVars, callVars, serviceLevels, levelIdx,
                   platReleases, wstate, wout, attempts, wg, chanClosed,
                   retNames, undeployRet, clusterVars, namespace, removedOwners>>

\* Variant of DeployLevelDone that goes on to the next level whatever the
\* level returned, and reports the errors of the last level only.
DeployLevelDone_KeepGoing(e) ==
    /\ op[e] = "Up"
    /\ pc[e] = "collect"
    /\ Len(resultChan[e]) = 0
    /\ chanClosed[e]
    /\ IF levelIdx[e] < Len(serviceLevels[e])
       THEN /\ levelIdx' = [levelIdx EXCEPT ![e] = @ + 1]
            /\ SpawnLevel(e, SeqToSet(serviceLevels[e][levelIdx[e] + 1]))
            /\ UNCHANGED <<pc, ret, retNames>>
       ELSE /\ retNames' = [retNames EXCEPT ![e] = SeqToSet(errors[e])]
            /\ Return(e, IF Len(errors[e]) > 0
                         THEN "service deployment failed: failed to deploy level"
                         ELSE "ok")
            /\ UNCHANGED <<levelIdx, wstate, wg, resultChan, chanClosed, errors, received>>
    /\ UNCHANGED <<levelVars, statusVars, unitVars, tuiVars, valuesVars, cliVars,
                   envVars, op, deleteCluster, serviceLevels,
                   platReleases, wout, attempts, undeployRet, clusterVars,
                   namespace, removedOwners>>

\* services.go:117-127 and 55-64: the range ends on the closed, drained
\* channel; a level with errors makes DeployServices and Up return an error
\* naming them, otherwise the next level is spawned or Up returns nil.
DeployLevelDone(e) ==
    /\ op[e] = "Up"
    /\ pc[e] = "collect"
    /\ Len(resultChan[e]) = 0
    /\ chanClosed[e]
    /\ IF Len(errors[e]) > 0
       THEN /\ retNames' = [retNames EXCEPT ![e] = SeqToSet(errors[e])]
            /\ Return(e, "service deployment failed: failed to deploy level")
            /\ UNCHANGED <<levelIdx, wstate, wg, resultChan, chanClosed, errors, received>>
       ELSE IF levelIdx[e] < Len(serviceLevels[e])
       THEN /\ levelIdx' = [levelIdx EXCEPT ![e] = @ + 1]
            /\ SpawnLevel(e, SeqToSet(serviceLevels[e][levelIdx[e] + 1]))
            /\ UNCHANGED <<pc, ret, retNames>>
       ELSE /\ Return(e, "ok")
            /\ UNCHANGED <<levelIdx, wstate, wg, resultChan, chanClosed, errors, received,
                           retNames>>
    /\ UNCHANGED <<levelVars, statusVars, unitVars, tuiVars, valuesVars, cliVars,
                   envVars, op, deleteCluster, serviceLevels,
                   platReleases, wout, attempts, undeployRet, clusterVars,
                   namespace, removedOwners>>

\* ----------------------------------------------- Down: orchestrator.go:53-78
Down(e, del) ==
    /\ BeginCall(e, "Down", del)
    /\ UNCHANGED cliVars
    /\ pc' = [pc EXCEPT ![e] = "undeploy"]

\* The releases the provider lists in namespace ns (helm list).
ListReleases(ns) == {n \in Names : ns[n] # "none"}

\* Variant of UndeployTargets that spawns a goroutine for every release in
\* the namespace instead of the services of the level.
UndeployTargets_EveryRelease(e, level, plat) == plat \cup ListReleases(namespace)

\* services.go:176-206: the goroutines spawned for a level.
UndeployTargets(e, level, plat) ==
    {s \in SeqToSet(level) : releaseExists(s, plat, runtime[e])}

\* Variant of UndeployServices whose error makes Down return an error.
UndeployServices_FatalError(e) ==
    /\ pc[e] = "undeploy"
    /\ \E listed \in BOOLEAN, order \in MapOrders(runtime[e].services) :
         LET plat == filterPlatReleases(ListReleases(namespace), runtime[e])
             r == groupServicesByDependencyLevel(runtime[e], order)
         IN /\ IF ~listed \/ r.err \/ Len(r.levels) = 0
               THEN /\ undeployRet' = [undeployRet EXCEPT ![e] =
                          IF ~listed THEN "failed to list helm releases"
                          ELSE IF r.err THEN "failed to resolve service dependencies"
                          ELSE "ok"]
                    /\ IF ~listed \/ r.err
                       THEN Return(e, "service undeployment failed")
                       ELSE pc' = [pc EXCEPT ![e] = "delete"] /\ UNCHANGED ret
                    /\ UNCHANGED <<serviceLevels, levelIdx, platReleases, wstate,
                                   wg, resultChan, chanClosed, errors, received>>
               ELSE /\ platReleases' = [platReleases EXCEPT ![e] = plat]
                    /\ serviceLevels' = [serviceLevels EXCEPT ![e] = r.levels]
                    /\ levelIdx' = [levelIdx EXCEPT ![e] = Len(r.levels)]
                    /\ SpawnLevel(e, UndeployTargets(e, r.levels[Len(r.levels)], plat))
                    /\ pc' = [pc EXCEPT ![e] = "collect"]
                    /\ UNCHANGED <<undeployRet, ret>>
    /\ UNCHANGED <<levelVars, statusVars, unitVars, tuiVars, valuesVars, cliVars,
                   envVars, op, deleteCluster, wout, attempts,
                   retNames, clusterVars, namespace, removedOwners>>

\* services.go:131-155 and orchestrator.go:59-62: list, filter, group and
\* the first iteration of the reverse loop; an error of the listing or of
\* the grouping ends UndeployServices, which Down only logs.
UndeployServices(e) ==
    /\ pc[e] = "undeploy"
    /\ \E listed \in BOOLEAN, order \in MapOrders(runtime[e].services) :
         LET plat == filterPlatReleases(ListReleases(namespace), runtime[e])
             r == groupServicesByDependencyLevel(runtime[e], order)
         IN /\ IF ~listed \/ r.err \/ Len(r.levels) = 0
               THEN /\ pc' = [pc EXCEPT ![e] = "delete"]
                    /\ undeployRet' = [undeployRet EXCEPT ![e] =
                          IF ~listed THEN "failed to list helm releases"
                          ELSE IF r.err THEN "failed to resolve service dependencies"
                          ELSE "ok"]
                    /\ UNCHANGED <<serviceLevels, levelIdx, platReleases, wstate,
                                   wg, resultChan, chanClosed, errors, received>>
               ELSE /\ platReleases' = [platReleases EXCEPT ![e] = plat]
                    /\ serviceLevels' = [serviceLevels EXCEPT ![e] = r.levels]
                    /\ levelIdx' = [levelIdx EXCEPT ![e] = Len(r.levels)]
                    /\ SpawnLevel(e, UndeployTargets(e, r.levels[Len(r.levels)], plat))
                    /\ pc' = [pc EXCEPT ![e] = "collect"]
                    /\ UNCHANGED undeployRet
    /\ UNCHANGED <<levelVars, statusVars, unitVars, tuiVars, valuesVars, cliVars,
                   envVars, op, deleteCluster, ret, wout, attempts,
                   retNames, clusterVars, namespace, removedOwners>>

\* services.go:191-199: the goroutine issues UninstallChart.
UndeployWorkerStart(e, s) ==
    /\ op[e] = "Down"
    /\ wstate[e][s] = "spawned"
    /\ wstate' = [wstate EXCEPT ![e][s] = "calling"]
    /\ attempts' = [attempts EXCEPT ![e][getReleaseName(s, runtime[e])] = @ + 1]
    /\ UNCHANGED <<levelVars, statusVars, unitVars, tuiVars, valuesVars, cliVars,
                   envVars, callVars, serviceLevels, levelIdx,
                   platReleases, wout, wg, resultChan, chanClosed, errors, received,
                   retNames, undeployRet, clusterVars, namespace, removedOwners>>

\* services.go:198-199: UninstallChart returns to the goroutine; success
\* removes the release, whoever installed it (a release that is not there
\* counts as success, part_012:109-112).
UndeployWorkerReturn(e, s) ==
    /\ op[e] = "Down"
    /\ wstate[e][s] = "calling"
    /\ wstate' = [wstate EXCEPT ![e][s] = "returned"]
    /\ LET rel == getReleaseName(s, runtime[e]) IN
       \E ok \in BOOLEAN :
         /\ wout' = [wout EXCEPT ![e][s] = IF ok THEN "ok" ELSE "fail"]
         /\ namespace' = IF ok THEN [namespace EXCEPT ![rel] = "none"] ELSE namespace
         /\ removedOwners' = IF ok /\ namespace[rel] # "none"
                             THEN [removedOwners EXCEPT ![e] = @ \cup {namespace[rel]}]
                             ELSE removedOwners
    /\ UNCHANGED <<levelVars, statusVars, unitVars, tuiVars, valuesVars, cliVars,
                   envVars, callVars, serviceLevels, levelIdx,
                   platReleases, attempts, wg, resultChan, chanClosed, errors, received, retNames,
                   undeployRet, clusterVars>>

\* services.go:199-200: a goroutine whose uninstall failed sends the error
\* on the level's buffered channel; the send blocks while the channel is
\* full.
UndeployWorkerSend(e, s) ==
    /\ op[e] = "Down"
    /\ wstate[e][s] = "returned"
    /\ wout[e][s] = "fail"
    /\ Len(resultChan[e]) < ChanCap(e)
    /\ resultChan' = [resultChan EXCEPT ![e] =
                        Append(@, [serviceName |-> s, err |-> TRUE])]
    /\ wstate' = [wstate EXCEPT ![e][s] = "sent"]
    /\ UNCHANGED <<levelVars, statusVars, unitVars, tuiVars, valuesVars, cliVars,
                   envVars, callVars, serviceLevels, levelIdx,
                   platReleases, wout, attempts, wg, chanClosed, errors, received, retNames,
                   undeployRet, clusterVars, namespace, removedOwners>>

\* services.go:192: the deferred wg.Done() runs when the goroutine ends,
\* after the send of a failed uninstall or right after a successful one.
UndeployWorkerDone(e, s) ==
    /\ op[e] = "Down"
    /\ \/ wstate[e][s] = "sent"
       \/ wstate[e][s] = "returned" /\ wout[e][s] = "ok"
    /\ wstate' = [wstate EXCEPT ![e][s] = "done"]
    /\ wg' = [wg EXCEPT ![e] = @ - 1]
    /\ UNCHANGED <<levelVars, statusVars, unitVars, tuiVars, valuesVars, cliVars,
                   envVars, callVars, serviceLevels, levelIdx,
                   platReleases, wout, attempts, resultChan, chanClosed, errors, received, retNames,
                   undeployRet, clusterVars, namespace, removedOwners>>

\* services.go:209-212: the closer goroutine.
UndeployClose(e) ==
    /\ op[e] = "Down"
    /\ pc[e] = "collect"
    /\ wg[e] = 0
    /\ ~chanClosed[e]
    /\ chanClosed' = [chanClosed EXCEPT ![e] = TRUE]
    /\ UNCHANGED <<levelVars, statusVars, unitVars, tuiVars, valuesVars, cliVars,
                   envVars, callVars, serviceLevels, levelIdx,
                   platReleases, wstate, wout, attempts, wg, resultChan, errors, received,
                   retNames, undeployRet, clusterVars, namespace, removedOwners>>

\* services.go:215-218: one iteration of the range over errorsChan.
UndeployCollect(e) ==
    /\ op[e] = "Down"
    /\ pc[e] = "collect"
    /\ Len(resultChan[e]) > 0
    /\ errors' = [errors EXCEPT ![e] = Append(@, Head(resultChan[e]).serviceName)]
    /\ received' = [received EXCEPT ![e] = Append(@, Head(resultChan[e]).serviceName)]
    /\ resultChan' = [resultChan EXCEPT ![e] = Tail(@)]
    /\ UNCHANGED <<levelVars, statusVars, unitVars, tuiVars, valuesVars, cliVars,
                   envVars, callVars, serviceLevels, levelIdx,
                   platReleases, wstate, wout, attempts, wg, chanClosed,
                   retNames, undeployRet, clusterVars, namespace, removedOwners>>

\* Variant of UndeployLevelDone that stops at the first level with errors.
UndeployLevelDone_FailFast(e) ==
    /\ op[e] = "Down"
    /\ pc[e] = "collect"
    /\ Len(resultChan[e]) = 0
    /\ chanClosed[e]
    /\ IF levelIdx[e] > 1 /\ Len(errors[e]) = 0
       THEN /\ levelIdx' = [levelIdx EXCEPT ![e] = @ - 1]
            /\ SpawnLevel(e, UndeployTargets(e, serviceLevels[e][levelIdx[e] - 1],
                                             platReleases[e]))
            /\ UNCHANGED <<pc, undeployRet>>
       ELSE /\ pc' = [pc EXCEPT ![e] = "delete"]
            /\ undeployRet' = [undeployRet EXCEPT ![e] =
                  IF Len(errors[e]) > 0 THEN "some services failed to undeploy" ELSE "ok"]
            /\ UNCHANGED <<levelIdx, wstate, wg, resultChan, chanClosed, errors, received>>
    /\ UNCHANGED <<levelVars, statusVars, unitVars, tuiVars, valuesVars, cliVars,
                   envVars, op, deleteCluster, ret, serviceLevels,
                   platReleases, wout, attempts, retNames, clusterVars,
                   namespace, removedOwners>>

\* services.go:220-224 and 154-167: the level's error is only printed; the
\* loop goes on to the level before, and after the first level
\* UndeployServices returns nil.
UndeployLevelDone(e) ==
    /\ op[e] = "Down"
    /\ pc[e] = "collect"
    /\ Len(resultChan[e]) = 0
    /\ chanClosed[e]
    /\ IF levelIdx[e] > 1
       THEN /\ levelIdx' = [levelIdx EXCEPT ![e] = @ - 1]
            /\ SpawnLevel(e, UndeployTargets(e, serviceLevels[e][levelIdx[e] - 1],
                                             platReleases[e]))
            /\ UNCHANGED <<pc, undeployRet>>
       ELSE /\ pc' = [pc EXCEPT ![e] = "delete"]
            /\ undeployRet' = [undeployRet EXCEPT ![e] = "ok"]
            /\ UNCHANGED <<levelIdx, wstate, wg, resultChan, chanClosed, errors, received>>
    /\ UNCHANGED <<levelVars, statusVars, unitVars, tuiVars, valuesVars, cliVars,
                   envVars, op, deleteCluster, ret, serviceLevels,
                   platReleases, wout, attempts, retNames, clusterVars,
                   namespace, removedOwners>>

\* Variant of DeleteCluster that skips the deletion when the undeploy stage
\* reported an error.
DeleteCluster_SkipAfterFailure(e) ==
    /\ pc[e] = "delete"
    /\ IF deleteCluster[e] /\ undeployRet[e] = "ok"
       THEN /\ deleteCalls' = [deleteCalls EXCEPT ![e] = @ + 1]
            /\ \E ok \in BOOLEAN :
                 /\ Return(e, IF ok THEN "ok" ELSE "cluster deletion failed")
                 /\ clusterErr' = [clusterErr EXCEPT ![e] =
                                      IF ok THEN @ ELSE "delete"]
       ELSE /\ Return(e, "ok")
            /\ UNCHANGED <<deleteCalls, clusterErr>>
    /\ UNCHANGED <<levelVars, statusVars, unitVars, tuiVars, valuesVars, cliVars,
                   envVars, op, deleteCluster, fanVars, createCalls,
                   polls, firstStatus, pollStatus, namespace, removedOwners>>

\* orchestrator.go:64-77 with cluster.go:67-83.
DeleteCluster(e) ==
    /\ pc[e] = "delete"
    /\ IF deleteCluster[e]
       THEN /\ deleteCalls' = [deleteCalls EXCEPT ![e] = @ + 1]
            /\ \E ok \in BOOLEAN :
                 /\ Return(e, IF ok THEN "ok" ELSE "cluster deletion failed")
                 /\ clusterErr' = [clusterErr EXCEPT ![e] =
                                      IF ok THEN @ ELSE "delete"]
       ELSE /\ Return(e, "ok")
            /\ UNCHANGED <<deleteCalls, clusterErr>>
    /\ UNCHANGED <<levelVars, statusVars, unitVars, tuiVars, valuesVars, cliVars,
                   envVars, op, deleteCluster, fanVars, createCalls,
                   polls, firstStatus, pollStatus, namespace, removedOwners>>

\* services.go:269-286: UndeployService uninstalls the release of the service
\* name it is given, whatever the name and whatever the namespace holds: no
\* listing, no filter and no releaseExists test.  One provider call, then
\* the return; the call starts with fresh locals as every call does.
UndeployService(e, serviceName) ==
    /\ pc[e] = "idle"
    /\ opsLeft[e] > 0
    /\ opsLeft' = [opsLeft EXCEPT ![e] = @ - 1]
    /\ history' = [history EXCEPT ![e] =
                      IF op[e] = "none" THEN @ ELSE Append(@, CallSummary(e))]
    /\ op' = [op EXCEPT ![e] = "UndeployService"]
    /\ deleteCluster' = [deleteCluster EXCEPT ![e] = FALSE]
    /\ LET releaseName == getReleaseName(serviceName, runtime[e]) IN
       \E ok \in BOOLEAN :
         /\ attempts' = [attempts EXCEPT ![e] =
                            [n \in Names |-> IF n = releaseName THEN 1 ELSE 0]]
         /\ wout' = [wout EXCEPT ![e] =
                        [n \in Names |-> IF n # serviceName THEN "none"
                                         ELSE IF ok THEN "ok" ELSE "fail"]]
         /\ namespace' = IF ok THEN [namespace EXCEPT ![releaseName] = "none"]
                         ELSE namespace
         /\ removedOwners' = [removedOwners EXCEPT ![e] =
                                 IF ok /\ namespace[releaseName] # "none"
                                 THEN {namespace[releaseName]} ELSE {}]
         /\ ret' = [ret EXCEPT ![e] = IF ok THEN "ok" ELSE "failed to undeploy"]
    /\ serviceLevels' = [serviceLevels EXCEPT ![e] = <<>>]
    /\ levelIdx' = [levelIdx EXCEPT ![e] = 0]
    /\ platReleases' = [platReleases EXCEPT ![e] = {}]
    /\ wstate' = [wstate EXCEPT ![e] = [n \in Names |-> "none"]]
    /\ wg' = [wg EXCEPT ![e] = 0]
    /\ resultChan' = [resultChan EXCEPT ![e] = <<>>]
    /\ chanClosed' = [chanClosed EXCEPT ![e] = FALSE]
    /\ errors' = [errors EXCEPT ![e] = <<>>]
    /\ received' = [received EXCEPT ![e] = <<>>]
    /\ retNames' = [retNames EXCEPT ![e] = {}]
    /\ undeployRet' = [undeployRet EXCEPT ![e] = "none"]
    /\ createCalls' = [createCalls EXCEPT ![e] = 0]
    /\ deleteCalls' = [deleteCalls EXCEPT ![e] = 0]
    /\ polls' = [polls EXCEPT ![e] = 0]
    /\ firstStatus' = [firstStatus EXCEPT ![e] = "none"]
    /\ clusterErr' = [clusterErr EXCEPT ![e] = "none"]
    /\ pollStatus' = [pollStatus EXCEPT ![e] = "none"]
    /\ UNCHANGED <<levelVars, statusVars, unitVars, tuiVars, valuesVars, cliVars,
                   runtime, pc>>

\* ------------------------------------------------------------ specifications
\* The services an environment of SpecUp and SpecDown may declare.
DeployNames == {"api", "db", "web"}

\* The services of the environments of SpecPair, SpecFan and SpecRoundTrip.
FanServices == {"api", "db"}

\* The environment under study; the other one stays empty and idle.
OneEnvironment ==
    /\ gInput = EmptyRuntime
    /\ gCalled = FALSE
    /\ gResult = NoResult
    /\ NoStatusCall
    /\ NoValuesCall
    /\ NoCli
    /\ NoUnit
    /\ NoTui
    /\ runtime \in {[e \in Envs |-> IF e = "envA" THEN r ELSE EmptyRuntime] :
                       r \in Runtimes(DeployNames, DeployMaxDeps)}
    /\ opsLeft = [e \in Envs |-> IF e = "envA" THEN 1 ELSE 0]
    /\ history = [e \in Envs |-> <<>>]
    /\ InitOrchestrator

\* One call of Up.  The call reads nothing an earlier call left behind: its
\* locals are fresh and InstallChart (helm upgrade --install) is issued
\* whatever the namespace holds.
InitUp ==
    /\ OneEnvironment
    /\ namespace = [n \in Names |-> "none"]

NextUp ==
    \E e \in Envs :
        \/ Up(e)
        \/ EnsureCluster(e)
        \/ CreateCluster(e)
        \/ PollCluster(e)
        \/ ClusterTimeout(e)
        \/ DeployServices(e)
        \/ \E s \in Names : DeployWorkerStart(e, s)
        \/ \E s \in Names : DeployWorkerReturn(e, s)
        \/ \E s \in Names : DeployWorkerSend(e, s)
        \/ \E s \in Names : DeployWorkerDone(e, s)
        \/ DeployClose(e)
        \/ DeployCollect(e)
        \/ DeployLevelDone(e)

SpecUp == InitUp /\ [][NextUp]_vars

\* Two calls of Up on equal environments of the two independent services
\* api and db, one after the other, so that the two returned errors can be
\* compared.
PairRuntimes == {rt \in Runtimes(FanServices, 0) : rt.services = FanServices}

InitPair ==
    /\ gInput = EmptyRuntime
    /\ gCalled = FALSE
    /\ gResult = NoResult
    /\ NoStatusCall
    /\ NoValuesCall
    /\ NoCli
    /\ NoUnit
    /\ NoTui
    /\ runtime \in {[e \in Envs |-> r] : r \in PairRuntimes}
    /\ opsLeft = [e \in Envs |-> 1]
    /\ history = [e \in Envs |-> <<>>]
    /\ namespace = [n \in Names |-> "none"]
    /\ InitOrchestrator

\* The second call is made once the first has returned.
NextPair ==
    \E e \in Envs :
        /\ e = "envB" => ret["envA"] # "none"
        /\ \/ Up(e)
           \/ EnsureCluster(e)
           \/ CreateCluster(e)
           \/ PollCluster(e)
           \/ ClusterTimeout(e)
           \/ DeployServices(e)
           \/ \E s \in Names : DeployWorkerStart(e, s)
           \/ \E s \in Names : DeployWorkerReturn(e, s)
           \/ \E s \in Names : DeployWorkerSend(e, s)
           \/ \E s \in Names : DeployWorkerDone(e, s)
           \/ DeployClose(e)
           \/ DeployCollect(e)
           \/ DeployLevelDone(e)

SpecPair == InitPair /\ [][NextPair]_vars

\* EnsureCluster alone: both environments call Up once with no service to
\* deploy.  The deadline of waitForClusterReady and its ticker are timers,
\* so a wait cannot last forever without a tick or the deadline: weak
\* fairness of the two together.
TimeAdvances(e) == PollCluster(e) \/ ClusterTimeout(e)

InitEnsure ==
    /\ gInput = EmptyRuntime
    /\ gCalled = FALSE
    /\ gResult = NoResult
    /\ NoStatusCall
    /\ NoValuesCall
    /\ NoCli
    /\ NoUnit
    /\ NoTui
    /\ runtime = [e \in Envs |-> EmptyRuntime]
    /\ opsLeft = [e \in Envs |-> 1]
    /\ history = [e \in Envs |-> <<>>]
    /\ namespace = [n \in Names |-> "none"]
    /\ InitOrchestrator

NextEnsure ==
    \E e \in Envs :
        \/ Up(e)
        \/ EnsureCluster(e)
        \/ CreateCluster(e)
        \/ PollCluster(e)
        \/ ClusterTimeout(e)
        \/ DeployServices(e)

SpecEnsure ==
    /\ InitEnsure
    /\ [][NextEnsure]_vars
    /\ \A e \in Envs : WF_vars(TimeAdvances(e))

\* One call of Down on a namespace holding the releases P: those named
\* after a service of the environment were installed by it, the others by
\* somebody else.
InitDown ==
    /\ OneEnvironment
    /\ \E P \in SUBSET DeployNames :
         namespace = [n \in Names |->
                        IF n \notin P THEN "none"
                        ELSE IF n \in runtime["envA"].services THEN "envA"
                        ELSE "foreign"]

NextDown ==
    \E e \in Envs :
        \/ \E del \in BOOLEAN : Down(e, del)
        \/ UndeployServices(e)
        \/ \E s \in Names : UndeployWorkerStart(e, s)
        \/ \E s \in Names : UndeployWorkerReturn(e, s)
        \/ \E s \in Names : UndeployWorkerSend(e, s)
        \/ \E s \in Names : UndeployWorkerDone(e, s)
        \/ UndeployClose(e)
        \/ UndeployCollect(e)
        \/ UndeployLevelDone(e)
        \/ DeleteCluster(e)

SpecDown == InitDown /\ [][NextDown]_vars

\* One call of UndeployService, for any service name, on a namespace that
\* may hold releases of the environment and foreign ones.
NextService == \E e \in Envs, serviceName \in Names : UndeployService(e, serviceName)

SpecService == InitDown /\ [][NextService]_vars

\* One call of Up or Down on an environment of the services api and db,
\* under the Go scheduler: the closer goroutine, the range over the channel
\* and the caller of the level function run whenever they are runnable.
FanRuntimes == Runtimes(FanServices, DeployMaxDeps)

InitFan ==
    /\ InitDown
    /\ runtime["envA"] \in FanRuntimes
    /\ \A n \in Names \ FanServices : namespace[n] = "none"

NextFan == NextUp \/ NextDown

Joins(e) ==
    \/ DeployClose(e)
    \/ DeployCollect(e)
    \/ DeployLevelDone(e)
    \/ UndeployClose(e)
    \/ UndeployCollect(e)
    \/ UndeployLevelDone(e)

\* What is left of the goroutine of s once its provider call has returned:
\* the send on the channel and the deferred wg.Done
\* (services.go:82, 92-99, 192, 199-200).
Worker(e, s) ==
    \/ DeployWorkerSend(e, s)
    \/ DeployWorkerDone(e, s)
    \/ UndeployWorkerSend(e, s)
    \/ UndeployWorkerDone(e, s)

\* The Go scheduler runs every runnable goroutine: the closer and the caller
\* of the level function, and every worker once its provider call has
\* returned.  Nothing makes a provider call return.
SpecFan ==
    /\ InitFan
    /\ [][NextFan]_vars
    /\ \A e \in Envs :
         /\ WF_vars(Joins(e))
         /\ \A s \in Names : WF_vars(Worker(e, s))

\* Two environments, each of at most one service, calling Up and Down on
\* one shared namespace.
SharedRuntimes == {rt \in Runtimes(Names, 0) : Cardinality(rt.services) <= 1}

InitShared ==
    /\ gInput = EmptyRuntime
    /\ gCalled = FALSE
    /\ gResult = NoResult
    /\ NoStatusCall
    /\ NoValuesCall
    /\ NoCli
    /\ NoUnit
    /\ NoTui
    /\ runtime \in [Envs -> SharedRuntimes]
    /\ opsLeft = [e \in Envs |-> MaxOps]
    /\ history = [e \in Envs |-> <<>>]
    /\ namespace = [n \in Names |-> "none"]
    /\ InitOrchestrator

Next == NextUp \/ NextDown

SpecShared == InitShared /\ [][Next]_vars

\* ------------------------------------------------------------------- SpecCli
\* The entry points that reach Up and Down: the commands up and down and the
\* dashboard's start and stop actions, on a loaded configuration.

\* part_014:430-449: the depth-first search of checkDependencyCycles from
\* one service; st holds the maps visited and recStack and the answer.
RECURSIVE hasCycle(_, _, _)
RECURSIVE hasCycleDeps(_, _, _, _)
\* Variant of hasCycle that tests visited before recStack.
hasCycle_VisitedFirst(rt, st, service) ==
    IF service \in st.visited THEN [st EXCEPT !.found = FALSE]
    ELSE IF service \in st.recStack THEN [st EXCEPT !.found = TRUE]
    ELSE LET entered == [found |-> FALSE,
                         visited |-> st.visited \cup {service},
                         recStack |-> st.recStack \cup {service}]
             after == IF service \in rt.services
                      THEN hasCycleDeps(rt, entered, rt.deps[service], 1)
                      ELSE entered
         IN IF after.found THEN after
            ELSE [after EXCEPT !.recStack = @ \ {service}]

hasCycle(rt, st, service) ==
    IF service \in st.recStack THEN [st EXCEPT !.found = TRUE]
    ELSE IF service \in st.visited THEN [st EXCEPT !.found = FALSE]
    ELSE LET entered == [found |-> FALSE,
                         visited |-> st.visited \cup {service},
                         recStack |-> st.recStack \cup {service}]
             after == IF service \in rt.services
                      THEN hasCycleDeps(rt, entered, rt.deps[service], 1)
                      ELSE entered
         IN IF after.found THEN after
            ELSE [after EXCEPT !.recStack = @ \ {service}]

\* part_014:441-447: the loop over the dependencies of a service.
hasCycleDeps(rt, st, dependencies, i) ==
    IF i > Len(dependencies) THEN [st EXCEPT !.found = FALSE]
    ELSE LET r == hasCycle(rt, st, dependencies[i])
         IN IF r.found THEN r ELSE hasCycleDeps(rt, r, dependencies, i + 1)

\* part_014:453-463: the range over ResolvedServices, visiting the services
\* in the given order.
RECURSIVE CycleLoop(_, _, _, _)
CycleLoop(rt, st, order, i) ==
    IF i > Len(order) THEN FALSE
    ELSE LET serviceName == order[i]
         IN IF serviceName \in st.visited THEN CycleLoop(rt, st, order, i + 1)
            ELSE LET r == hasCycle(rt, st, serviceName)
                 IN r.found \/ CycleLoop(rt, r, order, i + 1)

\* part_014:426-466: TRUE when a circular dependency is reported.
checkDependencyCycles(rt, order) ==
    CycleLoop(rt, [found |-> FALSE, visited |-> {}, recStack |-> {}], order, 1)

\* part_014:411-420: the dependencies that are not services.
validateResolvedService(rt, name) ==
    {rt.deps[name][i] : i \in 1..Len(rt.deps[name])} \ rt.services

\* part_014:170-199: TRUE when the runtime configuration is accepted.
ValidateRuntimeConfig(rt, order) ==
    /\ \A name \in rt.services : validateResolvedService(rt, name) = {}
    /\ ~checkDependencyCycles(rt, order)

\* part_014:104-109: the base configuration must declare at least one
\* service (every declared service is resolved, part_014:174-184).
ValidateBaseConfig(rt) == rt.services # {}

\* part_015:45-105: the configurations Load returns, those that pass
\* ValidateBaseConfig (part_015:66-69) and ValidateRuntimeConfig
\* (part_015:99-102).
LoadedRuntimes ==
    {rt \in Runtimes(Names, DeployMaxDeps) :
        /\ ValidateBaseConfig(rt)
        /\ \E order \in MapOrders(rt.services) : ValidateRuntimeConfig(rt, order)}

\* part_019:69-93
filterRuntimeServices(rt, serviceNames) ==
    IF \E name \in serviceNames : name \notin rt.services
    THEN [err |-> TRUE, rt |-> rt]
    ELSE [err |-> FALSE,
          rt |-> [services |-> rt.services \cap serviceNames,
                  deps |-> [s \in rt.services \cap serviceNames |-> rt.deps[s]]]]

\* orchestrator.go:137-147 with cluster.go:211-216 and services.go:477-482.
ValidatePrerequisites(t) ==
    IF ~t.k3d THEN "k3d validation failed"
    ELSE IF ~t.helm THEN "helm validation failed"
    ELSE "ok"

\* part_019:34-49: the command up loads the configuration and filters it to
\* the services named on the command line.
upCmdLoad(e, args) ==
    /\ cli[e] = NoCommand
    /\ pc[e] = "idle"
    /\ opsLeft[e] > 0
    /\ LET filtered == IF args = {} THEN [err |-> FALSE, rt |-> runtime[e]]
                       ELSE filterRuntimeServices(runtime[e], args)
       IN IF filtered.err
          THEN /\ cli' = [cli EXCEPT ![e] = [cmd |-> "up", stage |-> "failed",
                                             prereq |-> "unchecked"]]
               /\ UNCHANGED runtime
          ELSE /\ cli' = [cli EXCEPT ![e] = [cmd |-> "up", stage |-> "loaded",
                                             prereq |-> "unchecked"]]
               /\ runtime' = [runtime EXCEPT ![e] = filtered.rt]
    /\ UNCHANGED <<levelVars, statusVars, unitVars, tuiVars, valuesVars, tools, opsLeft, history, callVars, fanVars,
                   clusterVars, namespace, removedOwners>>

\* part_019:51-62: the command up validates the prerequisites and calls Up.
upCmdRun(e) ==
    /\ cli[e].cmd = "up"
    /\ cli[e].stage = "loaded"
    /\ IF ValidatePrerequisites(tools) # "ok"
       THEN /\ cli' = [cli EXCEPT ![e].stage = "failed", ![e].prereq = "failed"]
            /\ UNCHANGED <<levelVars, statusVars, unitVars, tuiVars, valuesVars, envVars, callVars, fanVars,
                           clusterVars, namespace, removedOwners>>
       ELSE /\ cli' = [cli EXCEPT ![e].stage = "running", ![e].prereq = "ok"]
            /\ BeginCall(e, "Up", FALSE)
            /\ pc' = [pc EXCEPT ![e] = "ensure"]
    /\ UNCHANGED tools

\* stop.go:26-60: the command down loads the configuration, asks for
\* confirmation and calls Down.
downCmd(e, del, confirmed) ==
    /\ cli[e] = NoCommand
    /\ IF ~confirmed
       THEN /\ pc[e] = "idle"
            /\ opsLeft[e] > 0
            /\ cli' = [cli EXCEPT ![e] = [cmd |-> "down", stage |-> "cancelled",
                                          prereq |-> "unchecked"]]
            /\ UNCHANGED <<levelVars, statusVars, unitVars, tuiVars, valuesVars, envVars, callVars, fanVars,
                           clusterVars, namespace, removedOwners>>
       ELSE /\ cli' = [cli EXCEPT ![e] = [cmd |-> "down", stage |-> "running",
                                          prereq |-> "unchecked"]]
            /\ BeginCall(e, "Down", del)
            /\ pc' = [pc EXCEPT ![e] = "undeploy"]
    /\ UNCHANGED tools

\* part_002:169-186: the dashboard's start action calls Up.
startEnvironment(e) ==
    /\ cli[e] = NoCommand
    /\ cli' = [cli EXCEPT ![e] = [cmd |-> "startEnvironment", stage |-> "running",
                                  prereq |-> "unchecked"]]
    /\ BeginCall(e, "Up", FALSE)
    /\ pc' = [pc EXCEPT ![e] = "ensure"]
    /\ UNCHANGED tools

\* part_002:188-210: the dashboard's stop action calls Down.
stopServices(e, del) ==
    /\ cli[e] = NoCommand
    /\ cli' = [cli EXCEPT ![e] = [cmd |-> "stopServices", stage |-> "running",
                                  prereq |-> "unchecked"]]
    /\ BeginCall(e, "Down", del)
    /\ pc' = [pc EXCEPT ![e] = "undeploy"]
    /\ UNCHANGED tools

\* One command or dashboard action on a loaded configuration; the namespace
\* is empty or holds the releases of an earlier up.
InitCli ==
    /\ gInput = EmptyRuntime
    /\ gCalled = FALSE
    /\ gResult = NoResult
    /\ NoStatusCall
    /\ NoUnit
    /\ NoTui
    /\ NoValuesCall
    /\ runtime \in {[e \in Envs |-> IF e = "envA" THEN r ELSE EmptyRuntime] :
                       r \in LoadedRuntimes}
    /\ opsLeft = [e \in Envs |-> IF e = "envA" THEN 1 ELSE 0]
    /\ history = [e \in Envs |-> <<>>]
    /\ tools \in [k3d : BOOLEAN, helm : BOOLEAN]
    /\ cli = [e \in Envs |-> NoCommand]
    /\ \E deployed \in BOOLEAN :
         namespace = [n \in Names |->
                        IF deployed /\ n \in runtime["envA"].services
                        THEN "envA" ELSE "none"]
    /\ InitOrchestrator

NextCli ==
    \E e \in Envs :
        \/ \E args \in SUBSET Names : upCmdLoad(e, args)
        \/ upCmdRun(e)
        \/ \E del \in BOOLEAN, confirmed \in BOOLEAN : downCmd(e, del, confirmed)
        \/ startEnvironment(e)
        \/ \E del \in BOOLEAN : stopServices(e, del)
        \/ EnsureCluster(e)
        \/ CreateCluster(e)
        \/ PollCluster(e)
        \/ ClusterTimeout(e)
        \/ DeployServices(e)
        \/ \E s \in Names : DeployWorkerStart(e, s)
        \/ \E s \in Names : DeployWorkerReturn(e, s)
        \/ \E s \in Names : DeployWorkerSend(e, s)
        \/ \E s \in Names : DeployWorkerDone(e, s)
        \/ DeployClose(e)
        \/ DeployCollect(e)
        \/ DeployLevelDone(e)
        \/ UndeployServices(e)
        \/ \E s \in Names : UndeployWorkerStart(e, s)
        \/ \E s \in Names : UndeployWorkerReturn(e, s)
        \/ \E s \in Names : UndeployWorkerSend(e, s)
        \/ \E s \in Names : UndeployWorkerDone(e, s)
        \/ UndeployClose(e)
        \/ UndeployCollect(e)
        \/ UndeployLevelDone(e)
        \/ DeleteCluster(e)

SpecCli == InitCli /\ [][NextCli]_vars

\* ------------------------------------------------------------- SpecRoundTrip
\* One environment calls Up, then Down, then Down again, against a namespace
\* that may already hold releases.  Its configuration has
\* passed the loader's validation.
RoundTripRuntimes ==
    {rt \in FanRuntimes :
        /\ ValidateBaseConfig(rt)
        /\ \E order \in MapOrders(rt.services) : ValidateRuntimeConfig(rt, order)}

InitRoundTrip ==
    /\ gInput = EmptyRuntime
    /\ gCalled = FALSE
    /\ gResult = NoResult
    /\ NoStatusCall
    /\ NoValuesCall
    /\ NoCli
    /\ NoUnit
    /\ NoTui
    /\ runtime \in {[e \in Envs |-> IF e = "envA" THEN r ELSE EmptyRuntime] :
                       r \in RoundTripRuntimes}
    /\ opsLeft = [e \in Envs |-> IF e = "envA" THEN 3 ELSE 0]
    /\ history = [e \in Envs |-> <<>>]
    /\ InitOrchestrator
    /\ \E P \in SUBSET FanServices :
         namespace = [n \in Names |->
                        IF n \notin P THEN "none"
                        ELSE IF n \in runtime["envA"].services THEN "envA"
                        ELSE "foreign"]

\* The first call is Up, every later call is Down.
NextRoundTrip ==
    \E e \in Envs :
        \/ op[e] = "none" /\ Up(e)
        \/ op[e] # "none" /\ \E del \in BOOLEAN : Down(e, del)
        \/ EnsureCluster(e)
        \/ CreateCluster(e)
        \/ PollCluster(e)
        \/ ClusterTimeout(e)
        \/ DeployServices(e)
        \/ \E s \in Names : DeployWorkerStart(e, s)
        \/ \E s \in Names : DeployWorkerReturn(e, s)
        \/ \E s \in Names : DeployWorkerSend(e, s)
        \/ \E s \in Names : DeployWorkerDone(e, s)
        \/ DeployClose(e)
        \/ DeployCollect(e)
        \/ DeployLevelDone(e)
        \/ UndeployServices(e)
        \/ \E s \in Names : UndeployWorkerStart(e, s)
        \/ \E s \in Names : UndeployWorkerReturn(e, s)
        \/ \E s \in Names : UndeployWorkerSend(e, s)
        \/ \E s \in Names : UndeployWorkerDone(e, s)
        \/ UndeployClose(e)
        \/ UndeployCollect(e)
        \/ UndeployLevelDone(e)
        \/ DeleteCluster(e)

SpecRoundTrip == InitRoundTrip /\ [][NextRoundTrip]_vars

\* ------------------------------------------------------------------- SpecTui
\* The dashboard's log viewer: key presses interleaved with the messages of
\* the commands it has issued.
MaxKeys == 4
MaxLines == 3

Keys == {"logs", "back", "up"}

coreVars == <<levelVars, statusVars, unitVars, valuesVars, cliVars, envVars,
              callVars, fanVars, clusterVars, namespace, removedOwners>>

InitTui ==
    /\ gInput = EmptyRuntime
    /\ gCalled = FALSE
    /\ gResult = NoResult
    /\ NoStatusCall
    /\ NoValuesCall
    /\ NoCli
    /\ NoUnit
    /\ runtime = [e \in Envs |-> EmptyRuntime]
    /\ opsLeft = [e \in Envs |-> 0]
    /\ history = [e \in Envs |-> <<>>]
    /\ namespace = [n \in Names |-> "none"]
    /\ InitOrchestrator
    /\ view = "HomeView"
    /\ logStreaming = FALSE
    /\ logStreamCmd = 0
    /\ logStreamReader = 0
    /\ logBufioReader = 0
    /\ logsInitialized = FALSE
    /\ rawLogs = 0
    /\ procs = {}
    /\ started = 0
    /\ fetching = 0
    /\ waiting = 0
    /\ keysLeft = MaxKeys

\* view_logs.go:286-297: kills the process and closes the pipe the model
\* holds, and clears the four stream fields.
stopLogStream ==
    /\ procs' = IF logStreamCmd # 0 THEN procs \ {logStreamCmd} ELSE procs
    /\ logStreamCmd' = 0
    /\ logStreamReader' = 0
    /\ logBufioReader' = 0
    /\ logStreaming' = FALSE

\* view_home.go:171-179: the Logs key on a service item opens the logs view
\* and issues fetchLogs; the other keys modelled change nothing held here.
handleHomeKeys(k, onService) ==
    /\ IF k = "logs" /\ onService
       THEN /\ view' = "ServiceLogsView"
            /\ fetching' = fetching + 1
       ELSE UNCHANGED <<view, fetching>>
    /\ UNCHANGED <<logStreaming, logStreamCmd, logStreamReader, logBufioReader,
                   logsInitialized, rawLogs, procs, started, waiting>>

\* view_logs.go:75-116: Back or Logs stops the stream and returns to the
\* home view; scrolling and the toggles change nothing held here.
handleLogsKeys(k) ==
    /\ IF k \in {"back", "logs"}
       THEN /\ stopLogStream
            /\ view' = "HomeView"
            /\ rawLogs' = 0
            /\ logsInitialized' = FALSE
       ELSE UNCHANGED <<view, rawLogs, logsInitialized, logStreaming,
                        logStreamCmd, logStreamReader, logBufioReader, procs>>
    /\ UNCHANGED <<started, fetching, waiting>>

\* keys.go:114-134: a key press is handled by the view that is shown.
handleKeyPress(k, onService) ==
    /\ keysLeft > 0
    /\ keysLeft' = keysLeft - 1
    /\ IF view = "ServiceLogsView"
       THEN handleLogsKeys(k)
       ELSE handleHomeKeys(k, onService)
    /\ UNCHANGED coreVars

\* view_logs.go:120-154: the message of a fetchLogs command.  failed is
\* msg.err # nil; streamOk is the outcome of startLogStream
\* (view_logs.go:233-255), which starts a new kubectl process.
handleLogsMsg(failed, streamOk) ==
    /\ fetching > 0
    /\ fetching' = fetching - 1
    /\ IF failed
       THEN /\ view' = "HomeView"
            /\ UNCHANGED <<logStreaming, logStreamCmd, logStreamReader,
                           logBufioReader, logsInitialized, rawLogs, procs,
                           started, waiting>>
       ELSE /\ rawLogs' = 1
            /\ logsInitialized' = TRUE
            /\ IF streamOk
               THEN /\ started' = started + 1
                    /\ procs' = procs \cup {started + 1}
                    /\ logStreamCmd' = started + 1
                    /\ logStreamReader' = started + 1
                    /\ logBufioReader' = started + 1
                    /\ logStreaming' = TRUE
                    /\ waiting' = waiting + 1
               ELSE UNCHANGED <<started, procs, logStreamCmd, logStreamReader,
                                logBufioReader, logStreaming, waiting>>
            /\ UNCHANGED view
    /\ UNCHANGED <<keysLeft, coreVars>>

\* view_logs.go:156-170: a line read by a waitForLogLine command is appended
\* and the next waitForLogLine is issued.
handleLogStreamMsg ==
    /\ waiting > 0
    /\ rawLogs < MaxLines
    /\ rawLogs' = rawLogs + 1
    /\ UNCHANGED <<view, logStreaming, logStreamCmd, logStreamReader,
                   logBufioReader, logsInitialized, procs, started, fetching,
                   waiting, keysLeft, coreVars>>

\* view_logs.go:172-182: a waitForLogLine command found no reader
\* (view_logs.go:260-263) or its read failed or reached the end of the
\* stream (view_logs.go:266-272); the stream is stopped.
handleLogStreamErrorMsg ==
    /\ waiting > 0
    /\ waiting' = waiting - 1
    /\ stopLogStream
    /\ UNCHANGED <<view, logsInitialized, rawLogs, started, fetching, keysLeft,
                   coreVars>>

\* part_001:11-80: Update handles one message at a time.
NextTui ==
    \/ \E k \in Keys, onService \in BOOLEAN : handleKeyPress(k, onService)
    \/ \E failed \in BOOLEAN, streamOk \in BOOLEAN : handleLogsMsg(failed, streamOk)
    \/ handleLogStreamMsg
    \/ handleLogStreamErrorMsg

SpecTui == InitTui /\ [][NextTui]_vars

\* ===================================================================== claims
\* The level being processed by the call of environment e.
CurrentLevel(e) == SeqToSet(serviceLevels[e][levelIdx[e]])

\* The services of the levels after / before the current one in the list.
LevelsAfter(e) ==
    UNION {SeqToSet(serviceLevels[e][l]) : l \in levelIdx[e] + 1..Len(serviceLevels[e])}

Returned(e, name) == op[e] = name /\ pc[e] = "idle" /\ ret[e] # "none"

LevelFailure == "service deployment failed: failed to deploy level"

\* C1: during Up, the install/upgrade call of a service s is started only
\* after the install/upgrade call of each of its dependencies d (d a service
\* of the environment) has returned successfully.
C1_DependencyInstalledBeforeDependent ==
    \A e \in Envs : op[e] = "Up" =>
        \A s \in runtime[e].services, d \in runtime[e].services :
            (DependsOn(runtime[e], s, d) /\ attempts[e][s] > 0) => wout[e][d] = "ok"

\* C2: for an acyclic graph the leveling succeeds and every dependency of a
\* service lies in a strictly earlier level than the service.
C2_DependenciesInEarlierLevels ==
    (gCalled /\ Acyclic(gInput)) =>
        /\ ~gResult.err
        /\ \A s \in gInput.services, d \in gInput.services :
             DependsOn(gInput, s, d) =>
                /\ LevelsOf(gResult.levels, s) # {}
                /\ LevelsOf(gResult.levels, d) # {}
                /\ \A ls \in LevelsOf(gResult.levels, s), ld \in LevelsOf(gResult.levels, d) :
                     ld < ls

\* C3: for an acyclic graph the levels partition the service set: no level
\* is empty, every name in a level is a service, and every service occurs
\* at exactly one position of the list.
C3_LevelsPartitionServices ==
    (gCalled /\ Acyclic(gInput)) =>
        /\ ~gResult.err
        /\ \A l \in 1..Len(gResult.levels) :
             /\ Len(gResult.levels[l]) > 0
             /\ SeqToSet(gResult.levels[l]) \subseteq gInput.services
        /\ \A s \in gInput.services : Cardinality(Positions(gResult.levels, s)) = 1

\* A dependency list names the same service twice.
HasDuplicateDeps(rt) ==
    \E s \in rt.services : \E i, j \in 1..Len(rt.deps[s]) :
        i # j /\ rt.deps[s][i] = rt.deps[s][j] /\ rt.deps[s][i] \in rt.services

C3_Witness ==
    /\ gCalled
    /\ Acyclic(gInput)
    /\ HasDuplicateDeps(gInput)
    /\ Cardinality(gInput.services) = 3
    /\ Len(gResult.levels) = 2

\* C4: an install/upgrade call of a service is started only when every
\* goroutine of every earlier level has finished (its call has returned, its
\* result is sent and the WaitGroup is released).
C4_LevelJoinedBeforeNext ==
    \A e \in Envs : op[e] = "Up" =>
        \A s \in Names : attempts[e][s] > 0 =>
            \A t \in Names : wstate[e][t] # "done" =>
                \A ls \in LevelsOf(serviceLevels[e], s), lt \in LevelsOf(serviceLevels[e], t) :
                    ~(lt < ls)

C4_Witness ==
    \E e \in Envs :
        /\ op[e] = "Up"
        /\ levelIdx[e] = 2
        /\ Len(serviceLevels[e][1]) >= 2
        /\ \E s \in CurrentLevel(e) : wstate[e][s] = "calling"

\* s is in a later level than f / a sibling of f in the level list of e.
InLaterLevel(e, s, f) ==
    \E lf \in 1..Len(serviceLevels[e]) :
        /\ f \in SeqToSet(serviceLevels[e][lf])
        /\ \E ls \in lf + 1..Len(serviceLevels[e]) : s \in SeqToSet(serviceLevels[e][ls])

Sibling(e, s, f) ==
    /\ s # f
    /\ \E l \in 1..Len(serviceLevels[e]) : {s, f} \subseteq SeqToSet(serviceLevels[e][l])

\* C5 as stated: once the deployment of a service f has failed, no
\* install/upgrade call is made for a service of a later level, and when Up
\* returns it returns an error and every sibling of f has had its
\* install/upgrade call made and returned.
C5_SiblingsInstalledNoLaterLevel ==
    \A e \in Envs : op[e] = "Up" =>
        \A f \in Names : wout[e][f] = "fail" =>
            /\ \A s \in Names :
                 (attempts[e][s] # 0 \/ wstate[e][s] # "none") => ~InLaterLevel(e, s, f)
            /\ pc[e] = "idle" =>
                 /\ IsErr(ret[e])
                 /\ \A s \in Names :
                      Sibling(e, s, f) => attempts[e][s] = 1 /\ wstate[e][s] = "done"

\* C5 amended: as above, but a sibling whose own values resolution fails
\* finishes its attempt without an install/upgrade call.
C5_SiblingsAttemptedNoLaterLevel ==
    \A e \in Envs : op[e] = "Up" =>
        \A f \in Names : wout[e][f] = "fail" =>
            /\ \A s \in Names :
                 (attempts[e][s] # 0 \/ wstate[e][s] # "none") => ~InLaterLevel(e, s, f)
            /\ pc[e] = "idle" =>
                 /\ IsErr(ret[e])
                 /\ \A s \in Names :
                      Sibling(e, s, f) =>
                         /\ wstate[e][s] = "done"
                         /\ \/ attempts[e][s] = 1 /\ wout[e][s] \in {"ok", "fail"}
                            \/ attempts[e][s] = 0 /\ wout[e][s] = "fail"

\* Up has returned after a level in which one install/upgrade call failed
\* and the sibling was installed, with a later level left.
C5_Witness ==
    \E e \in Envs :
        /\ Returned(e, "Up")
        /\ levelIdx[e] >= 1
        /\ \E f \in CurrentLevel(e), s \in CurrentLevel(e) :
             /\ wout[e][f] = "fail" /\ attempts[e][f] = 1
             /\ wout[e][s] = "ok" /\ attempts[e][s] = 1
        /\ LevelsAfter(e) # {}

\* C6: the error of a failing level names exactly the services of that level
\* whose deployment failed.
C6_ErrorNamesExactlyTheFailed ==
    \A e \in Envs : (Returned(e, "Up") /\ ret[e] = LevelFailure) =>
        retNames[e] = {s \in CurrentLevel(e) : wout[e][s] = "fail"}

C6_Witness ==
    \E e \in Envs :
        /\ Returned(e, "Up")
        /\ levelIdx[e] >= 1
        /\ ret[e] = LevelFailure
        /\ \E s \in CurrentLevel(e) : wout[e][s] = "ok"
        /\ Cardinality(retNames[e]) = 2

\* C7: undeploy visits the levels in reverse with a join between them, so
\* that once the uninstall of a service has been issued no service that
\* depends on it still has an uninstall pending or running.
C7_DependentsUninstalledFirst ==
    \A e \in Envs : op[e] = "Down" =>
        /\ \A s \in Names, t \in Names :
             \A ls \in LevelsOf(serviceLevels[e], s), lt \in LevelsOf(serviceLevels[e], t) :
                (lt > ls /\ attempts[e][s] > 0) => wstate[e][t] \in {"none", "done"}
        /\ \A s \in runtime[e].services, t \in runtime[e].services :
             (DependsOn(runtime[e], t, s) /\ attempts[e][s] > 0)
                => wstate[e][t] \notin {"spawned", "calling"}

\* C8: Down issues uninstall calls only for release names that are names of
\* services of its own environment.
C8_OnlyOwnReleasesUninstalled ==
    \A e \in Envs : op[e] = "Down" =>
        \A n \in Names : attempts[e][n] > 0 => n \in runtime[e].services

C8_Witness ==
    \E e \in Envs :
        /\ Returned(e, "Down")
        /\ \E n \in Names \ runtime[e].services : namespace[n] = "foreign"
        /\ \E m \in runtime[e].services : attempts[e][m] = 1 /\ wout[e][m] = "ok"

\* C9: the uninstalls of one environment never remove a release installed
\* by the Up of another environment.
C9_NoCrossEnvironmentUninstall ==
    \A e \in Envs : removedOwners[e] \cap (Envs \ {e}) = {}

\* C10: when the listing and the grouping succeed, UndeployServices returns
\* nil after processing every level, and every service with a listed
\* release has had exactly one uninstall call (the others none), whatever
\* the calls returned.
C10_UninstallFailuresNeverFatal ==
    \A e \in Envs :
        (/\ op[e] = "Down"
         /\ pc[e] \in {"delete", "idle"}
         /\ undeployRet[e] \notin {"failed to list helm releases",
                                   "failed to resolve service dependencies"}) =>
            /\ undeployRet[e] = "ok"
            /\ Len(serviceLevels[e]) > 0 => levelIdx[e] = 1
            /\ \A s \in runtime[e].services :
                 IF releaseExists(s, platReleases[e], runtime[e])
                 THEN attempts[e][s] = 1 /\ wstate[e][s] = "done"
                 ELSE attempts[e][s] = 0 /\ wstate[e][s] = "none"

C10_Witness ==
    \E e \in Envs :
        /\ Returned(e, "Down")
        /\ undeployRet[e] = "ok"
        /\ Len(serviceLevels[e]) >= 2
        /\ \E s \in SeqToSet(serviceLevels[e][Len(serviceLevels[e])]) : wout[e][s] = "fail"
        /\ \E s \in SeqToSet(serviceLevels[e][1]) : attempts[e][s] = 1

\* C11: once the undeploy stage of Down is over, every service of the
\* environment that has a release in the namespace has had an uninstall
\* call, whatever failed before (the listing and the grouping included).
C11_EveryDeployedServiceAttempted ==
    \A e \in Envs : (op[e] = "Down" /\ pc[e] \in {"delete", "idle"}) =>
        \A s \in runtime[e].services :
            namespace[getReleaseName(s, runtime[e])] # "none" => attempts[e][s] >= 1

\* C12: Down with deleteCluster = TRUE issues the cluster deletion exactly
\* once, after the undeploy stage has finished and whatever that stage
\* reported; Down with deleteCluster = FALSE never issues it.
C12_ClusterDeletionExactlyOnceAfterUndeploy ==
    \A e \in Envs : op[e] = "Down" =>
        /\ deleteCalls[e] <= 1
        /\ deleteCalls[e] > 0 =>
             /\ deleteCluster[e]
             /\ undeployRet[e] # "none"
             /\ \A s \in Names : wstate[e][s] \in {"none", "done"}
        /\ Returned(e, "Down") => deleteCalls[e] = (IF deleteCluster[e] THEN 1 ELSE 0)

\* Down has deleted the cluster after an undeploy stage that ended on a
\* listing failure with a release of the environment still installed.
C12_Witness ==
    \E e \in Envs :
        /\ Returned(e, "Down")
        /\ deleteCalls[e] = 1
        /\ undeployRet[e] = "failed to list helm releases"
        /\ \E s \in runtime[e].services : namespace[s] = e

\* C13: Down returns an error exactly when deleteCluster was requested and
\* the cluster deletion call failed; no failure of the undeploy stage makes
\* Down return an error.
C13_DownErrorIffDeletionFailed ==
    \A e \in Envs : Returned(e, "Down") =>
        (IsErr(ret[e]) <=> (deleteCluster[e] /\ clusterErr[e] = "delete"))

\* Down has returned nil after a failed listing left a release of the
\* environment installed and the requested cluster deletion succeeded.
C13_Witness ==
    \E e \in Envs :
        /\ Returned(e, "Down")
        /\ ret[e] = "ok"
        /\ deleteCluster[e] /\ deleteCalls[e] = 1 /\ clusterErr[e] = "none"
        /\ undeployRet[e] = "failed to list helm releases"

\* C14: for every graph with a cycle (a self-dependency included) the
\* leveling fails with the circular-dependency error and returns no level
\* list, not even the levels computed before the cycle was reached.
C14_CycleFailsWithoutLevels ==
    (gCalled /\ ~Acyclic(gInput)) => (gResult.err /\ gResult.levels = <<>>)

\* The leveling has failed on a graph with a cycle and a service that
\* forms a level before the cycle is reached.
C14_Witness ==
    /\ gCalled
    /\ ~Acyclic(gInput)
    /\ gResult.err
    /\ \E s \in gInput.services : InitInDegree(gInput)[s] = 0

CycleFailure == "service deployment failed: circular dependency"

\* C15: when the graph of the environment has a cycle, Up fails with the
\* dependency-cycle error without side effects: when it returns that error
\* no install/upgrade call and no cluster creation call has been made.
C15_CycleErrorWithoutSideEffects ==
    \A e \in Envs : (Returned(e, "Up") /\ ret[e] = CycleFailure) =>
        /\ ~Acyclic(runtime[e])
        /\ \A s \in Names : attempts[e][s] = 0
        /\ createCalls[e] = 0

\* Neither of s and t depends on the other, directly or transitively.
Unrelated(rt, s, t) == ~Reaches(rt, s, t) /\ ~Reaches(rt, t, s)

SameLevel(levels, s, t) == LevelsOf(levels, s) \cap LevelsOf(levels, t) # {}

\* C16 as stated: for an acyclic graph any two services with no dependency
\* relationship between them are assigned to the same level.
C16_UnrelatedServicesShareLevel ==
    (gCalled /\ Acyclic(gInput)) =>
        \A s \in gInput.services, t \in gInput.services :
            Unrelated(gInput, s, t) => SameLevel(gResult.levels, s, t)

\* C16 amended: for an acyclic graph any two distinct services assigned to
\* the same level have no dependency relationship between them.
C16_LevelMatesAreUnrelated ==
    (gCalled /\ Acyclic(gInput)) =>
        \A s \in gInput.services, t \in gInput.services :
            (s # t /\ SameLevel(gResult.levels, s, t)) => Unrelated(gInput, s, t)

\* The leveling of an acyclic graph of three services has put two of them
\* in one level and the third, related to one of the two, in another.
C16_Witness ==
    /\ gCalled
    /\ Acyclic(gInput)
    /\ Len(gResult.levels) = 2
    /\ \E s \in gInput.services, t \in gInput.services, u \in gInput.services :
         /\ s # t /\ SameLevel(gResult.levels, s, t)
         /\ ~SameLevel(gResult.levels, s, u)
         /\ ~Unrelated(gInput, s, u)
         /\ Unrelated(gInput, t, u)

ClusterFailures == {"cluster setup failed: failed to create cluster",
                    "cluster setup failed: timeout waiting for cluster"}

\* C17: when the first status query of EnsureCluster reports running, no
\* create call is issued, no readiness poll is made and EnsureCluster
\* succeeds: Up goes on to the services and never returns a cluster error.
C17_RunningClusterIsNotCreated ==
    \A e \in Envs : (op[e] = "Up" /\ firstStatus[e] = "running") =>
        /\ createCalls[e] = 0
        /\ polls[e] = 0
        /\ pc[e] \notin {"ensure", "create", "wait"}
        /\ clusterErr[e] = "none"
        /\ ret[e] \notin ClusterFailures

\* Up has returned nil on a cluster found running, after installing a
\* service.
C17_Witness ==
    \E e \in Envs :
        /\ Returned(e, "Up")
        /\ ret[e] = "ok"
        /\ firstStatus[e] = "running"
        /\ \E s \in runtime[e].services : attempts[e][s] = 1 /\ wout[e][s] = "ok"

\* C18: when EnsureCluster fails (the creation fails or the readiness wait
\* times out), Up returns an error and no install/upgrade call is made for
\* any service.
C18_ClusterFailureStopsUp ==
    \A e \in Envs : (op[e] = "Up" /\ clusterErr[e] \in {"create", "timeout"}) =>
        /\ pc[e] = "idle"
        /\ ret[e] \in ClusterFailures
        /\ \A s \in Names : attempts[e][s] = 0 /\ wstate[e][s] = "none"
        /\ serviceLevels[e] = <<>>

\* Up has returned the timeout error of the readiness wait on an
\* environment that has services.
C18_Witness ==
    \E e \in Envs :
        /\ Returned(e, "Up")
        /\ clusterErr[e] = "timeout"
        /\ createCalls[e] = 1
        /\ Cardinality(runtime[e].services) >= 2

\* C19: GetServiceStatuses never returns an error: whatever the status
\* queries answer, it returns exactly one entry per service of the
\* environment, and a service without a release gets state not-deployed.
C19_ServiceStatusesNeverFail ==
    qCalled = "GetServiceStatuses" =>
        /\ ~qResult.err
        /\ DOMAIN qResult.statuses = qInput.rt.services
        /\ \A s \in qInput.rt.services :
             qInput.releases[getReleaseName(s, qInput.rt)] = "none"
                => qResult.statuses[s] = "not-deployed"

\* GetServiceStatuses has returned for an environment with one service
\* without release, one whose query failed and one deployed.
C19_Witness ==
    /\ qCalled = "GetServiceStatuses"
    /\ \E s \in qInput.rt.services, t \in qInput.rt.services, u \in qInput.rt.services :
         /\ qInput.releases[s] = "none"
         /\ qInput.releases[t] = "failed" /\ t \in qInput.broken
         /\ qInput.releases[u] = "deployed" /\ u \notin qInput.broken
         /\ qResult.statuses[u] = "deployed"

\* C20: Status never fails because a sub-query failed: it returns a
\* snapshot and no error, the snapshot holds exactly one entry per service
\* of the environment, and a failed cluster query shows as cluster state
\* not-found with the error text.
C20_StatusNeverFails ==
    qCalled = "Status" =>
        /\ ~qResult.err
        /\ DOMAIN qResult.statuses = qInput.rt.services
        /\ qInput.cluster = "error" =>
             (qResult.cluster.status = "not-found" /\ qResult.cluster.error # "")

\* Status has returned after a failed cluster query and a failed release
\* query, next to a release query that succeeded.
C20_Witness ==
    /\ qCalled = "Status"
    /\ qInput.cluster = "error"
    /\ \E s \in qInput.rt.services, t \in qInput.rt.services :
         /\ s \in qInput.broken /\ qInput.releases[s] # "none"
         /\ qResult.statuses[s] = "not-deployed"
         /\ qResult.statuses[t] = "deployed"

\* The reference deep merge of two trees: a key of the source whose value
\* and whose existing value are both mappings is merged recursively, any
\* other key of the source replaces, and the other keys of the target stay.
RECURSIVE DeepMerge(_, _)
DeepMerge(t, s) ==
    [k \in DOMAIN t \cup DOMAIN s |->
        IF k \notin DOMAIN s THEN t[k]
        ELSE IF k \in DOMAIN t /\ t[k].kind = "map" /\ s[k].kind = "map"
        THEN Mapping(DeepMerge(t[k].m, s[k].m))
        ELSE s[k]]

\* The tree with the single key k holding v.
Single(k, v) == Extend(NoEntries, k, v)

\* C21: for all nested mappings, what mergeValues leaves in the target is
\* the reference deep merge of the target and the source (mappings under
\* the same key are merged recursively, any other incoming value replaces
\* the existing one, keys absent from the source keep their value), and
\* the call never fails.
C21_MergeIsReferenceDeepMerge ==
    vCalled = "mergeValues" =>
        /\ ~vResult.err
        /\ vResult.values = DeepMerge(vInput.target, vInput.source)

\* {x:{x:1}} merged with {x:{y:2}} gave {x:{x:1,y:2}}.
C21_Witness ==
    /\ vCalled = "mergeValues"
    /\ vInput.target = Single("x", Mapping(Single("x", Scalar("1"))))
    /\ vInput.source = Single("x", Mapping(Single("y", Scalar("2"))))
    /\ vResult.values =
         Single("x", Mapping(Extend(Single("x", Scalar("1")), "y", Scalar("2"))))

\* Environment e has issued a mutating provider call: a cluster creation or
\* deletion, or the install or uninstall of a release.
Mutated(e) ==
    \/ createCalls[e] > 0
    \/ deleteCalls[e] > 0
    \/ \E n \in Names : attempts[e][n] > 0

\* C22: on every path that reaches a cluster creation or deletion or a
\* release install or uninstall (the commands up and down, the dashboard's
\* start and stop), ValidatePrerequisites has run successfully first.
C22_PrerequisitesBeforeMutation ==
    \A e \in Envs : Mutated(e) => cli[e].prereq = "ok"

\* C28: whenever an install/upgrade call has been issued by Up, every name
\* in every service's dependency list is a key of the service mapping that
\* Up was given, on every path into Up (the command up with or without
\* service arguments, the dashboard's start).
C28_DependenciesAreServicesWhenDeploying ==
    \A e \in Envs :
        (op[e] = "Up" /\ \E n \in Names : attempts[e][n] > 0) =>
            \A s \in runtime[e].services : validateResolvedService(runtime[e], s) = {}

\* A status query made by the call of environment e reported running.
SawRunning(e) == firstStatus[e] = "running" \/ pollStatus[e] = "running"

\* C23: when the cluster creation call fails, EnsureCluster (and Up)
\* returns a fatal error at once: exactly one create call has been made
\* and waitForClusterReady has made no status query.
C23_CreateFailureIsFatalWithoutRetry ==
    \A e \in Envs :
        clusterErr[e] = "create" =>
            /\ pc[e] = "idle"
            /\ ret[e] = "cluster setup failed: failed to create cluster"
            /\ createCalls[e] = 1
            /\ pollStatus[e] = "none"
            /\ polls[e] = 0

C23_Witness ==
    \E e \in Envs :
        /\ Returned(e, "Up")
        /\ firstStatus[e] = "not-running"
        /\ clusterErr[e] = "create"
        /\ createCalls[e] = 1

\* C24: after a successful create call EnsureCluster terminates: it never
\* makes more polls than fit into the deadline, it stops waiting at the
\* first poll that reports running, a timeout returns the timeout error,
\* and every wait is eventually left.
C24_WaitForClusterReadyTerminates ==
    /\ [](\A e \in Envs :
            /\ pc[e] = "wait" =>
                 /\ polls[e] * PollInterval <= ReadyTimeout
                 /\ pollStatus[e] # "running"
            /\ clusterErr[e] = "timeout" =>
                 /\ pc[e] = "idle"
                 /\ ret[e] = "cluster setup failed: timeout waiting for cluster")
    /\ \A e \in Envs : (pc[e] = "wait") ~> (pc[e] # "wait")

\* A wait ended by the deadline after polls that never reported running.
C24_Witness ==
    \E e \in Envs :
        /\ Returned(e, "Up")
        /\ createCalls[e] = 1
        /\ clusterErr[e] = "timeout"
        /\ pollStatus[e] = "not-running"

\* C25: EnsureCluster returns success only if a status query of that call
\* reported running, so Up issues no install/upgrade call before the
\* cluster has been observed running.
C25_NoInstallBeforeClusterRunning ==
    \A e \in Envs :
        op[e] = "Up" =>
            /\ pc[e] \in {"deploy", "collect"} => SawRunning(e)
            /\ (\E n \in Names : attempts[e][n] > 0) => SawRunning(e)
            /\ (Returned(e, "Up") /\ clusterErr[e] = "none") => SawRunning(e)

\* An install call issued after the cluster was created and a poll of
\* waitForClusterReady reported running.
C25_Witness ==
    \E e \in Envs :
        /\ op[e] = "Up"
        /\ createCalls[e] = 1
        /\ firstStatus[e] = "not-running"
        /\ pollStatus[e] = "running"
        /\ \E n \in Names : attempts[e][n] > 0

\* C26: Up returns success only if every service of the environment had
\* exactly one install/upgrade call during that Up and each of these calls
\* returned success; no service is installed twice within one Up.
C26_UpSuccessMeansEveryServiceInstalledOnce ==
    \A e \in Envs :
        op[e] = "Up" =>
            /\ \A n \in Names : attempts[e][n] <= 1
            /\ (Returned(e, "Up") /\ ret[e] = "ok") =>
                 \A s \in runtime[e].services :
                     /\ attempts[e][getReleaseName(s, runtime[e])] = 1
                     /\ wout[e][s] = "ok"

\* A successful Up of three services deployed in more than one level.
C26_Witness ==
    \E e \in Envs :
        /\ Returned(e, "Up")
        /\ ret[e] = "ok"
        /\ Cardinality(runtime[e].services) = NumNames
        /\ Len(serviceLevels[e]) > 1
        /\ \A s \in runtime[e].services : attempts[e][s] = 1

\* C27: a cluster deletion that fails during Down is only logged: Down does
\* not return an error because the deletion failed.
C27_DeletionFailureIsNotFatalForDown ==
    \A e \in Envs :
        (Returned(e, "Down") /\ clusterErr[e] = "delete") => ~IsErr(ret[e])

\* The entries found under key k of the mapping below key "resources" of a
\* resolved tree; a key that is missing or holds no mapping has none.
ResourceEntries(values, k) ==
    IF "resources" \notin DOMAIN values THEN {}
    ELSE IF values["resources"].kind # "map" THEN {}
    ELSE IF k \notin DOMAIN values["resources"].m THEN {}
    ELSE DOMAIN values["resources"].m[k].m

\* C29: ResolveValues leaves the service's inline values, nested mappings
\* included, exactly as they were before the call, for every chart type
\* and every combination of layers.
C29_ResolveValuesLeavesInlineValues ==
    vCalled = "ResolveValues" => vResult.inline = vInput.values

\* C30: for a local-build service the resolved values hold no entry under
\* resources.limits and none under resources.requests, for every chart type
\* and every inline or file-provided configuration.
C30_LocalBuildClearsResourceLimits ==
    (vCalled = "ResolveValues" /\ vInput.isLocal /\ ~vResult.err) =>
        /\ ResourceEntries(vResult.values, "limits") = {}
        /\ ResourceEntries(vResult.values, "requests") = {}

\* The layers ResolveValues merges for a service, earliest first; a layer
\* the call skips (nil inline values, no values file) has no entries.
Layers(service, envOrder) ==
    <<getChartDefaults(service.chart),
      IF service.valuesNil THEN NoEntries ELSE service.values,
      IF service.valuesFile = "" THEN NoEntries ELSE loadValuesFile(service).values,
      buildLocalOverrides(service),
      buildRuntimeOverrides(service, envOrder)>>

\* The entry at key k of the mapping at top-level key top of a tree, or the
\* scalar "<none>" when there is no such entry.
Nested(values, top, k) ==
    IF top \notin DOMAIN values THEN Scalar("<none>")
    ELSE IF values[top].kind # "map" THEN Scalar("<none>")
    ELSE IF k \notin DOMAIN values[top].m THEN Scalar("<none>")
    ELSE values[top].m[k]

\* C31: the five layers are applied in the order chart defaults, inline
\* values, values file, local/registry overrides, runtime overrides: a
\* top-level key whose latest layer holds a non-mapping value resolves to
\* that value; image.repository, image.tag and image.pullPolicy equal the
\* override of the fourth layer, and service.port is the first declared
\* port whenever the service declares ports, whatever earlier layers hold.
C31_LaterLayerWins ==
    (vCalled = "ResolveValues" /\ ~vResult.err) =>
        /\ \A envOrder \in EnvOrders : \A i \in 1..5 :
              \A k \in DOMAIN Layers(vInput, envOrder)[i] :
                 LET layers == Layers(vInput, envOrder)
                 IN (/\ \A j \in (i + 1)..5 : k \notin DOMAIN layers[j]
                     /\ layers[i][k].kind = "scalar")
                    => (k \in DOMAIN vResult.values /\ vResult.values[k] = layers[i][k])
        /\ Nested(vResult.values, "image", "repository") =
              Scalar(IF vInput.isLocal THEN ServiceName ELSE Registry \o "/" \o ServiceName)
        /\ Nested(vResult.values, "image", "tag") =
              Scalar(IF vInput.isLocal THEN "dev" ELSE Version)
        /\ Nested(vResult.values, "image", "pullPolicy") =
              Scalar(IF vInput.isLocal THEN "Never" ELSE "IfNotPresent")
        /\ Len(vInput.ports) > 0 =>
              Nested(vResult.values, "service", "port") = Scalar(vInput.ports[1])

\* A values file sets image.repository, image.pullPolicy and service.port,
\* the inline values set the image tag, and the resolved tree still holds
\* the overrides.
C31_Witness ==
    /\ vCalled = "ResolveValues"
    /\ ~vResult.err
    /\ Len(vInput.ports) > 0
    /\ Nested(vInput.fileValues, "service", "port") = Float("70000.0")
    /\ Nested(vInput.fileValues, "image", "repository") = Scalar("file")
    /\ Nested(vInput.values, "image", "tag") = Scalar("inline")
    /\ Nested(vResult.values, "image", "tag") # Scalar("inline")
    /\ Nested(vResult.values, "service", "port") = Scalar(vInput.ports[1])

\* C32 as stated: ValidateValues returns an error only for values whose
\* image block holds neither a repository nor a tag; an image block with
\* one of the two is accepted.
C32_FailsOnlyWithoutRepositoryAndTag ==
    (vCalled = "ValidateValues" /\ vResult.err) =>
        /\ Nested(vInput.values, "image", "repository") = Scalar("<none>")
        /\ Nested(vInput.values, "image", "tag") = Scalar("<none>")

\* C32 as amended: ValidateValues returns an error only if the image block
\* is missing or no mapping, or lacks a repository, or lacks a tag, or
\* service.port is a float64 whose truncation to an integer lies outside
\* 1..65535; and an image block that holds a repository but no tag, or a
\* tag but no repository, is rejected with an error.
C32_FailsWithoutRepositoryOrTag ==
    vCalled = "ValidateValues" =>
        LET lacksRepo == Nested(vInput.values, "image", "repository") = Scalar("<none>")
            lacksTag == Nested(vInput.values, "image", "tag") = Scalar("<none>")
            port == Nested(vInput.values, "service", "port")
            badPort == /\ port.kind = "float"
                       /\ (ToInt(port.s) < 1 \/ ToInt(port.s) > 65535)
        IN /\ vResult.err => (lacksRepo \/ lacksTag \/ badPort)
           /\ (lacksRepo # lacksTag) => vResult.err

\* An image block with a repository and no tag, and no port to blame, has
\* been rejected.
C32_Witness ==
    /\ vCalled = "ValidateValues"
    /\ vResult.err
    /\ Nested(vInput.values, "image", "repository") = Scalar("x")
    /\ Nested(vInput.values, "image", "tag") = Scalar("<none>")
    /\ "service" \notin DOMAIN vInput.values
    /\ validation = <<"missing image.tag">>

\* C33: a validation outcome never blocks a deployment: once the values of
\* a service are resolved, deployService hands exactly those values to the
\* install/upgrade call, whatever ValidateValues reported about them.
C33_ValidationNeverBlocksInstall ==
    (vCalled = "deployService" /\ ~vResult.err) =>
        /\ helmCall.called
        /\ helmCall.values = vResult.values
        /\ unitErr \in {"nil", "helm deployment failed"}

\* ValidateValues reported an error and the install call was made.
C33_Witness ==
    /\ vCalled = "deployService"
    /\ validation # <<>>
    /\ helmCall.called
    /\ helmCall.values = vResult.values
    /\ unitErr = "nil"

\* C34: the aggregated error of a failing deploy level is deterministic: two
\* calls of Up on equal environments in which the same services fail with
\* the same individual errors return the same error, whatever order the
\* deployments complete in.  The returned error lists errors[e] in order.
C34_AggregatedErrorIsDeterministic ==
    \A e1 \in Envs, e2 \in Envs :
        (/\ Returned(e1, "Up") /\ ret[e1] = LevelFailure
         /\ Returned(e2, "Up") /\ ret[e2] = LevelFailure
         /\ runtime[e1] = runtime[e2]
         /\ SeqToSet(errors[e1]) = SeqToSet(errors[e2])
         /\ \A s \in SeqToSet(errors[e1]) :
               attempts[e1][getReleaseName(s, runtime[e1])]
                 = attempts[e2][getReleaseName(s, runtime[e2])])
        => errors[e1] = errors[e2]

\* C35: in every level list returned by groupServicesByDependencyLevel each
\* level is sorted alphabetically and holds no two services related by
\* dependency, and the list is the same whatever order the map iteration
\* visits the services in.
C35_LevelsSortedUnrelatedDeterministic ==
    (gCalled /\ ~gResult.err) =>
        /\ \A l \in 1..Len(gResult.levels) :
             /\ \A i \in 1..Len(gResult.levels[l]) - 1 :
                  Rank(gResult.levels[l][i]) < Rank(gResult.levels[l][i + 1])
             /\ \A i \in 1..Len(gResult.levels[l]), j \in 1..Len(gResult.levels[l]) :
                  ~Reaches(gInput, gResult.levels[l][i], gResult.levels[l][j])
        /\ \A order \in MapOrders(gInput.services) :
             gResult = groupServicesByDependencyLevel(gInput, order)

\* Two levels have been returned, one of them with two services.
C35_Witness ==
    /\ gCalled
    /\ ~gResult.err
    /\ Len(gResult.levels) = 2
    /\ \E l \in 1..Len(gResult.levels) : Len(gResult.levels[l]) = 2
    /\ \E s \in gInput.services, d \in gInput.services : DependsOn(gInput, s, d)

\* C37: the two cycle detectors agree on every dependency graph, with
\* self-dependencies, duplicate entries and dependencies on undeclared
\* services: groupServicesByDependencyLevel fails exactly when
\* checkDependencyCycles reports a cycle, whatever the iteration order.
C37_CycleDetectorsAgree ==
    gCalled =>
        \A order \in MapOrders(gInput.services) :
            gResult.err <=> checkDependencyCycles(gInput, order)

\* The leveling has failed on a graph whose cycle is reached through a
\* service outside the cycle that also names an undeclared service.
C37_Witness ==
    /\ gCalled
    /\ gResult.err
    /\ \E s \in gInput.services :
         /\ ~Reaches(gInput, s, s)
         /\ \E d \in gInput.services : DependsOn(gInput, s, d) /\ Reaches(gInput, d, d)
    /\ \E s \in gInput.services : \E i \in 1..Len(gInput.deps[s]) :
         gInput.deps[s][i] \notin gInput.services

\* Every provider call of the current level of e has returned and the level
\* function has not: no goroutine of the level is still to start or is
\* inside its install or uninstall call.
LevelJoined(e) ==
    pc[e] = "collect" /\ \A s \in Names : wstate[e][s] \notin {"spawned", "calling"}

\* The services of the current level for which a goroutine was spawned.
Spawned(e) == {s \in CurrentLevel(e) : wstate[e][s] # "none"}

\* C36: the per-level fan-out never deadlocks and leaks no unit of work.
\* When a level function returns, every goroutine spawned for the level has
\* ended (none is still running or blocked on the channel), the channel is
\* drained, deployServicesInLevel has received exactly one result per
\* spawned service and undeployServicesInLevel at most one error per spawned
\* service; and once every provider call of a level has returned, the
\* function of that level does return.
C36_FanOutJoinsAndReturns ==
    /\ [][\A e \in Envs :
            (pc[e] = "collect" /\ (pc'[e] # "collect" \/ levelIdx'[e] # levelIdx[e])) =>
               /\ \A s \in Names : wstate[e][s] \in {"none", "done"}
               /\ wg[e] = 0
               /\ Len(resultChan[e]) = 0
               /\ Len(received[e]) = Cardinality(SeqToSet(received[e]))
               /\ IF op[e] = "Up"
                  THEN SeqToSet(received[e]) = Spawned(e)
                  ELSE SeqToSet(received[e]) \subseteq Spawned(e)]_vars
    /\ \A e \in Envs, k \in 1..Cardinality(FanServices) :
         (LevelJoined(e) /\ levelIdx[e] = k)
            ~> ~(pc[e] = "collect" /\ levelIdx[e] = k)

\* In a level of two services every provider call has returned while one
\* goroutine has ended, its result received, and the other has yet to send.
C36_Witness ==
    \E e \in Envs :
        /\ op[e] = "Up"
        /\ LevelJoined(e)
        /\ Cardinality(Spawned(e)) = 2
        /\ Len(received[e]) = 1
        /\ \E s \in Spawned(e) : wstate[e][s] = "returned"
        /\ \E s \in Spawned(e) : wstate[e][s] = "done"

\* The calls of environment e that have returned, in order.
Calls(e) ==
    history[e] \o (IF pc[e] = "idle" /\ op[e] # "none"
                   THEN <<CallSummary(e)>> ELSE <<>>)

\* An Up and the Down that follows it, all of whose provider calls succeeded.
CleanUpDown(calls, i) ==
    /\ i + 1 <= Len(calls)
    /\ calls[i].op = "Up" /\ ~calls[i].providerFailed
    /\ calls[i + 1].op = "Down" /\ ~calls[i + 1].providerFailed

\* C38: when every provider call succeeds, Up followed by Down is a round
\* trip: once Down has returned no release named after a service of the
\* environment remains in the namespace, and a Down repeated right after it
\* issues no uninstall call and returns no error.
C38_UpDownIsRoundTrip ==
    \A e \in Envs :
      LET calls == Calls(e) IN
      \A i \in 1..Len(calls) :
        CleanUpDown(calls, i) =>
          /\ calls[i + 1].remaining = {}
          /\ (/\ i + 2 <= Len(calls)
              /\ calls[i + 2].op = "Down"
              /\ ~calls[i + 2].providerFailed)
             => /\ calls[i + 2].helmCalls = {}
                /\ calls[i + 2].ret = "ok"

\* An Up that installed two services, a Down that uninstalled them and a
\* repeated Down have all returned, every provider call having succeeded.
C38_Witness ==
    LET calls == Calls("envA") IN
    /\ Len(calls) = 3
    /\ CleanUpDown(calls, 1)
    /\ calls[1].ret = "ok"
    /\ Cardinality(calls[1].helmCalls) = 2
    /\ calls[1].remaining = calls[1].helmCalls
    /\ Cardinality(calls[2].helmCalls) = 2
    /\ calls[3].op = "Down" /\ ~calls[3].providerFailed

\* C39: ResolveValues is deterministic: the values returned for a service,
\* the order of the generated environment-variable list included, are the
\* values every other call on the same input returns, in whatever order the
\* range over service.Environment visits its keys.
C39_ResolveValuesIsDeterministic ==
    vCalled = "ResolveValues" =>
        \A envOrder \in EnvOrders : vResult = ResolveValues(vInput, envOrder)

\* C40: a log-stream process exists only while the logs view is shown: in
\* every reachable state of the dashboard, when the home view is shown no
\* log stream is running, i.e. logStreaming is false, the model holds no
\* stream process and no reader, and no stream process is alive.
C40_NoStreamInHomeView ==
    view = "HomeView" =>
        /\ ~logStreaming
        /\ logStreamCmd = 0
        /\ logStreamReader = 0
        /\ logBufioReader = 0
        /\ procs = {}
====
